---- MODULE Spec2Model ----
(***************************************************************************)
(* Model of the visual core of subtle-frequencies: ChladniRenderer with    *)
(* its ParticleSystem, GeometryRenderer and WaveRenderer.                  *)
(*                                                                         *)
(* Numbers.  The program computes in IEEE doubles; the model computes in   *)
(* fixed point on integers:                                                *)
(*   - mode numbers, amplitudes, alphas and chakra fields in thousandths   *)
(*     (Milli): 3.0 is 3000, 0.3 is 300;                                   *)
(*   - frequencies in whole Hz, timestamps in whole milliseconds;          *)
(*   - pixel coordinates in whole pixels.                                  *)
(* Divisions round down (\div), so a value is at most one unit below the   *)
(* real one.  Each renderer is a record variable whose fields carry the    *)
(* names of the class's fields.  Every renderer has its own next-state     *)
(* relation and specification; the other renderers' variables do not       *)
(* change under it.  The drawing contexts and GPU objects of the renderers *)
(* are followed apart from their numeric state, in HostSpec.               *)
(***************************************************************************)
EXTENDS Integers, Sequences, FiniteSets, TLC

VARIABLES
    chladni,    \* ChladniRenderer: the fields of part_003 lines 35-41
    chHistory,  \* the last two ChladniRenderer.updateFrequency calls, oldest
                \* first: the argument and the targets each one set
    chRetarget, \* the arguments of the last particleSystem.updateTargets call
                \* made by ChladniRenderer.updateFrequency (<<>>: none yet)
    frames,     \* the number of render calls made so far
    geo,        \* GeometryRenderer: frequency, amplitude, time, current, target
    geoFrame,   \* what the last GeometryRenderer.render call drew
    particleSystem, \* ParticleSystem: particleCount, canvas, particles
    retarget,   \* when the last call to the ParticleSystem was updateTargets:
                \* its arguments and the random samples of every particle
    wave,       \* WaveRenderer: width, height, frequency, amplitude, time, sources
    waveFrame,  \* what the last WaveRenderer.render call drew
    field,      \* the last evaluation of the Chladni field: arguments and value
    canvases,   \* the kind of context each of the host's two canvases holds
    refs,       \* the host's renderer refs: the context fields of each renderer
    gpu,        \* the WebGL program and buffer objects and the delete calls made
    destroys,   \* the number of destroy calls made on each renderer
    drawn,      \* what the last render call of any renderer drew into
    shade,      \* one pixel of the field layer as the last ChladniRenderer.render
                \* call shaded it, with the colour and the time of that frame
    audio,      \* the four audio engines of App, the pending setTimeout
                \* callbacks, the node graphs created and still connected, and
                \* the last call made on each engine
    app,        \* the state of the App component
    localStorage, \* the item 'subtle-frequencies-presets' of localStorage
    allPresets  \* the allPresets state of the PresetManager component

chladniVars == <<chladni, chHistory, chRetarget>>
geoVars == <<geo, geoFrame>>
particleVars == <<particleSystem, retarget>>
waveVars == <<wave, waveFrame>>
fieldVars == <<field>>
hostVars == <<canvases, refs, gpu, destroys, drawn>>
shadeVars == <<shade>>
audioVars == <<audio, app>>
presetVars == <<localStorage, allPresets>>
vars == <<chladni, chHistory, chRetarget, frames, geo, geoFrame,
          particleSystem, retarget, wave, waveFrame, field,
          canvases, refs, gpu, destroys, drawn, shade, audio, app,
          localStorage, allPresets>>

Milli == 1000

Min(a, b) == IF a < b THEN a ELSE b
Max(a, b) == IF a > b THEN a ELSE b
Abs(a) == IF a < 0 THEN -a ELSE a
Between(v, a, b) == Min(a, b) <= v /\ v <= Max(a, b)
StrictlyBetween(v, a, b) == Min(a, b) < v /\ v < Max(a, b)

(***************************************************************************)
(* Bounds of the model.                                                    *)
(***************************************************************************)
\* ChladniRenderer.render is called at most MaxFrames times in a run
MaxFrames == 2
\* GeometryRenderer.render is called at most GeoMaxFrames times in a run of
\* GeoSpec (GeoLiveSpec renders for ever)
GeoMaxFrames == 1
\* GeoLiveSpec keeps this.time, in ms, at most MaxClock (see GeoRenderForward)
MaxClock == 66
\* in GeoLiveSpec the first MaxIrregular frames come at any gap of
\* GeoFrameGaps, the later ones at the steady 16 ms of a 60 Hz display
MaxIrregular == 2
\* ParticleSystem.update is called at most MaxUpdates times in a run
MaxUpdates == 2

(***************************************************************************)
(* Math.log2 in fixed point.                                               *)
(* Log2Milli(num, den) is log2(num / den) in thousandths: the integer part *)
(* by doubling, ten fractional bits by repeated squaring of the mantissa   *)
(* (scaled by 2^14).  Within 0.003 of Math.log2 for 20..20000 Hz over 200. *)
(***************************************************************************)
RECURSIVE Pow2(_)
Pow2(k) == IF k <= 0 THEN 1 ELSE 2 * Pow2(k - 1)

MantissaOne == Pow2(14)
FracBits == 2 * 5

RECURSIVE Log2Floor(_, _, _)
\* the largest k (possibly negative) with den * 2^k <= num, searched from k
Log2Floor(num, den, k) ==
    IF num >= den
    THEN IF den * Pow2(k + 1) <= num THEN Log2Floor(num, den, k + 1) ELSE k
    ELSE IF num * Pow2(-k) < den THEN Log2Floor(num, den, k - 1) ELSE k

RECURSIVE Log2Frac(_, _, _)
\* the fractional bits of log2 of the mantissa x (x / MantissaOne in [1, 2))
Log2Frac(x, i, acc) ==
    IF i = 0 THEN acc
    ELSE LET sq == (x * x) \div MantissaOne
         IN  IF sq >= 2 * MantissaOne
             THEN Log2Frac(sq \div 2, i - 1, 2 * acc + 1)
             ELSE Log2Frac(sq, i - 1, 2 * acc)

Log2Milli(num, den) ==
    LET k == Log2Floor(num, den, 0)
        x == IF k >= 0 THEN (num * MantissaOne) \div (den * Pow2(k))
                       ELSE (num * Pow2(-k) * MantissaOne) \div den
    IN  k * Milli + (Log2Frac(x, FracBits, 0) * Milli) \div Pow2(FracBits)

\* Math.round on thousandths: the nearest integer, halves up, in thousandths
RoundMilli(v) == ((v + 500) \div Milli) * Milli
\* Math.floor on thousandths
FloorMilli(v) == (v \div Milli) * Milli

(***************************************************************************)
(* ChladniRenderer (part_003).                                             *)
(* this.time only feeds the shader's ambient animation and the particles'  *)
(* noise; it is an input of ParticleUpdate below and no field here.        *)
(***************************************************************************)
\* frequencies handed to updateFrequency, in Hz, all in the host's range
\* 20..20000: octave pairs whose modes the clamp to [2, 8] cuts (20/40,
\* 6000/12000) and does not cut (200/400, 350/700), and the default 432
ChladniFreqs == {20, 40, 200, 350, 400, 432, 700, 6000, 12000}
\* timestamps handed to render, in ms, in any order
ChladniTimestamps == {0, 100, 700}
\* amplitudes handed to setAmplitude, in thousandths
ChladniAmplitudes == {-500, 0, 1500}

ChladniInit ==
    /\ chladni = [currentModeN |-> 3000, currentModeM |-> 2000,
                  targetModeN |-> 3000, targetModeM |-> 2000,
                  amplitude |-> 500, lastFrameTime |-> 0]
    /\ chHistory = <<>>
    /\ chRetarget = <<>>

\* const normalizedFreq = Math.max(20, Math.min(frequency, 20000))
normalizedFreq(frequency) == Max(20, Min(frequency, 20000))
\* mutant: the octaves are counted from 400 Hz
octavesFrom200Hz_From400Hz(frequency) == Log2Milli(normalizedFreq(frequency), 400)
\* const octavesFrom200Hz = Math.log2(normalizedFreq / 200)
octavesFrom200Hz(frequency) == Log2Milli(normalizedFreq(frequency), 200)
baseN == 3
baseM == 3
\* mutant: n gets the 0.8 asymmetry factor that belongs to m
modeN_Asymmetric(frequency) ==
    baseN * Milli + (octavesFrom200Hz(frequency) * 8) \div 10
\* const modeN = baseN + octavesFrom200Hz
modeN(frequency) == baseN * Milli + octavesFrom200Hz(frequency)
\* const modeM = baseM + octavesFrom200Hz * 0.8
modeM(frequency) == baseM * Milli + (octavesFrom200Hz(frequency) * 8) \div 10
\* const fractionalOctave = octavesFrom200Hz - Math.floor(octavesFrom200Hz)
fractionalOctave(frequency) ==
    octavesFrom200Hz(frequency) - FloorMilli(octavesFrom200Hz(frequency))

\* mutant: the clamp without Math.round
ClampRoundMode_NoRound(mode) == Max(2 * Milli, Min(8 * Milli, mode))
\* Math.max(2, Math.min(8, Math.round(mode)))
ClampRoundMode(mode) == Max(2 * Milli, Min(8 * Milli, RoundMilli(mode)))
\* the value added to both targets when fractionalOctave > 0.7
ModeNudge(frequency) == IF fractionalOctave(frequency) > 700 THEN 300 ELSE 0

NewTargetModeN(frequency) == ClampRoundMode(modeN(frequency)) + ModeNudge(frequency)
NewTargetModeM(frequency) == ClampRoundMode(modeM(frequency)) + ModeNudge(frequency)

\* the targets of every frequency of the model, computed once
ChladniTargets ==
    [frequency \in ChladniFreqs |->
        <<NewTargetModeN(frequency), NewTargetModeM(frequency)>>]

\* the last two entries of a call history
LastTwo(h) == IF Len(h) > 2 THEN Tail(h) ELSE h

\* the test of lines 210-213 that guards particleSystem.updateTargets
SignificantChange(tN, tM, cN, cM) == Abs(tN - cN) > 500 \/ Abs(tM - cM) > 500

ChladniUpdateFrequency(frequency) ==
    LET tN == ChladniTargets[frequency][1]
        tM == ChladniTargets[frequency][2]
    IN  /\ chladni' = [chladni EXCEPT !.targetModeN = tN, !.targetModeM = tM]
        /\ chHistory' = LastTwo(Append(chHistory,
              [frequency |-> frequency, targetModeN |-> tN, targetModeM |-> tM]))
        /\ chRetarget' =
              IF SignificantChange(tN, tM, chladni.currentModeN, chladni.currentModeM)
              THEN <<tN, tM>> ELSE chRetarget
        /\ UNCHANGED <<frames, geoVars, particleVars, waveVars,
                   fieldVars, hostVars,
                   shadeVars, audioVars, presetVars>>

\* this.amplitude = Math.max(0, Math.min(1, amplitude))
ChladniSetAmplitude(amplitude) ==
    /\ chladni' = [chladni EXCEPT !.amplitude = Max(0, Min(Milli, amplitude))]
    /\ UNCHANGED <<chHistory, chRetarget, frames, geoVars, particleVars, waveVars,
                   fieldVars, hostVars,
                   shadeVars, audioVars, presetVars>>

\* deltaTime in ms: lastFrameTime ? currentTime - lastFrameTime : 16
ChladniDeltaTime(currentTime) ==
    IF chladni.lastFrameTime # 0 THEN currentTime - chladni.lastFrameTime ELSE 16

\* current += (target - current) * lerpSpeed, lerpSpeed = deltaTime * 2 (s)
LerpMode(current, target, deltaTime) ==
    current + ((target - current) * (2 * deltaTime)) \div Milli

ChladniRender(currentTime) ==
    LET deltaTime == ChladniDeltaTime(currentTime)
    IN  /\ frames < MaxFrames
        /\ frames' = frames + 1
        /\ chladni' = [chladni EXCEPT
                !.lastFrameTime = currentTime,
                !.currentModeN = LerpMode(@, chladni.targetModeN, deltaTime),
                !.currentModeM = LerpMode(@, chladni.targetModeM, deltaTime)]
        /\ UNCHANGED <<chHistory, chRetarget, geoVars, particleVars, waveVars,
                   fieldVars, hostVars,
                   shadeVars, audioVars, presetVars>>

\* updateFrequency and render in any order, with any arguments
ChladniNext ==
    \/ \E frequency \in ChladniFreqs : ChladniUpdateFrequency(frequency)
    \/ \E currentTime \in ChladniTimestamps : ChladniRender(currentTime)

(***************************************************************************)
(* GeometryRenderer (src/visualizer/geometryRenderer.ts).                  *)
(* Every ChakraState field is in thousandths: petals 4 is 4000, colour     *)
(* channel 220 is 220000, rotSpeed 0.02 is 20.                             *)
(***************************************************************************)
Rgb(r, g, b) == [r |-> r * Milli, g |-> g * Milli, b |-> b * Milli]

CHAKRAS == <<
    [freq |-> 120, state |->
        [petals |-> 4000, centralVertices |-> 4000, rings |-> 2000, gateStyle |-> 1000,
         color |-> Rgb(220, 50, 30), innerColor |-> Rgb(240, 180, 50),
         rotSpeed |-> 20, complexity |-> 200, sacredForm |-> 0]],
    [freq |-> 300, state |->
        [petals |-> 6000, centralVertices |-> 0, rings |-> 3000, gateStyle |-> 700,
         color |-> Rgb(240, 140, 30), innerColor |-> Rgb(255, 200, 60),
         rotSpeed |-> 30, complexity |-> 350, sacredForm |-> 800]],
    [freq |-> 450, state |->
        [petals |-> 10000, centralVertices |-> 3000, rings |-> 3000, gateStyle |-> 400,
         color |-> Rgb(250, 210, 30), innerColor |-> Rgb(255, 240, 100),
         rotSpeed |-> 40, complexity |-> 500, sacredForm |-> 1500]],
    [freq |-> 580, state |->
        [petals |-> 12000, centralVertices |-> 6000, rings |-> 4000, gateStyle |-> 200,
         color |-> Rgb(50, 220, 100), innerColor |-> Rgb(140, 255, 160),
         rotSpeed |-> 35, complexity |-> 650, sacredForm |-> 2500]],
    [freq |-> 720, state |->
        [petals |-> 16000, centralVertices |-> 0, rings |-> 5000, gateStyle |-> 100,
         color |-> Rgb(40, 150, 255), innerColor |-> Rgb(120, 200, 255),
         rotSpeed |-> 30, complexity |-> 800, sacredForm |-> 3500]],
    [freq |-> 870, state |->
        [petals |-> 2000, centralVertices |-> 3000, rings |-> 3000, gateStyle |-> 0,
         color |-> Rgb(140, 60, 255), innerColor |-> Rgb(200, 150, 255),
         rotSpeed |-> 25, complexity |-> 700, sacredForm |-> 4500]],
    [freq |-> 1000, state |->
        [petals |-> 24000, centralVertices |-> 1000, rings |-> 6000, gateStyle |-> 0,
         color |-> Rgb(200, 160, 255), innerColor |-> Rgb(255, 245, 255),
         rotSpeed |-> 15, complexity |-> 1000, sacredForm |-> 5000]] >>

\* mutant: the interpolated value rounded to a whole number
lerp_Rounded(a, b, t) == RoundMilli(a + ((b - a) * t) \div Milli)
\* private lerp(a, b, t): a + (b - a) * t, t in thousandths
lerp(a, b, t) == a + ((b - a) * t) \div Milli
\* private lerpColor(a, b, t)
lerpColor(a, b, t) ==
    [r |-> lerp(a.r, b.r, t), g |-> lerp(a.g, b.g, t), b |-> lerp(a.b, b.b, t)]

\* the index i of the first pair with CHAKRAS[i].freq <= f <= CHAKRAS[i+1].freq
\* (lines 131-137); the defaults of lines 129-130 when there is none
RECURSIVE FindSegment(_, _)
FindSegment(clampedFreq, i) ==
    IF i > Len(CHAKRAS) - 1 THEN <<1, Len(CHAKRAS)>>
    ELSE IF clampedFreq >= CHAKRAS[i].freq /\ clampedFreq <= CHAKRAS[i + 1].freq
         THEN <<i, i + 1>>
         ELSE FindSegment(clampedFreq, i + 1)

\* mutant: 3 - t for 3 - 2 * t
Smoothstep_WrongCoefficient(t) == (t * t * (3 * Milli - t)) \div (Milli * Milli)
\* const st = t * t * (3 - 2 * t), t and st in thousandths
Smoothstep(t) == (t * t * (3 * Milli - 2 * t)) \div (Milli * Milli)

getChakraState(freq) ==
    LET clampedFreq == Max(20, Min(freq, 2000))
        seg == FindSegment(clampedFreq, 1)
        lower == CHAKRAS[seg[1]]
        upper == CHAKRAS[seg[2]]
        t == ((clampedFreq - lower.freq) * Milli) \div (upper.freq - lower.freq)
        st == Smoothstep(t)
    IN  IF clampedFreq <= CHAKRAS[1].freq THEN CHAKRAS[1].state
        ELSE IF clampedFreq >= CHAKRAS[Len(CHAKRAS)].freq
             THEN CHAKRAS[Len(CHAKRAS)].state
        ELSE [petals |-> lerp(lower.state.petals, upper.state.petals, st),
              centralVertices |->
                  lerp(lower.state.centralVertices, upper.state.centralVertices, st),
              rings |-> lerp(lower.state.rings, upper.state.rings, st),
              gateStyle |-> lerp(lower.state.gateStyle, upper.state.gateStyle, st),
              color |-> lerpColor(lower.state.color, upper.state.color, st),
              innerColor |->
                  lerpColor(lower.state.innerColor, upper.state.innerColor, st),
              rotSpeed |-> lerp(lower.state.rotSpeed, upper.state.rotSpeed, st),
              complexity |-> lerp(lower.state.complexity, upper.state.complexity, st),
              sacredForm |-> lerp(lower.state.sacredForm, upper.state.sacredForm, st)]

\* frequencies handed to updateFrequency: every anchor, two points inside
\* every segment (t = 0.1 and t = 0.5 or 0.9), and values outside 120..1000
\* and outside the clamp 20..2000
GeoFreqs == {10, 120, 138, 210, 300, 315, 435, 450, 463, 515, 580, 594,
             650, 720, 735, 855, 870, 883, 987, 1000, 2500}
\* the state of every frequency of the model, computed once
ChakraTable == [freq \in GeoFreqs \cup ChladniFreqs |-> getChakraState(freq)]

\* timestamps handed to render, in ms, in any order
GeoTimestamps == {0, 16, 66}
\* amplitudes handed to setAmplitude, in thousandths (setAmplitude does not
\* clamp; the host passes AudioEngine.getAmplitude() in [0, 1], or 0.3)
GeoAmplitudes == {0, 300, 1000}

NoFrame == [rendered |-> FALSE, alpha |-> 0, petals |-> 0, rings |-> 0,
            layer3 |-> {}]

GeoInit ==
    /\ geo = [frequency |-> 432, amplitude |-> 500, time |-> 0,
              current |-> ChakraTable[432], target |-> ChakraTable[432]]
    /\ geoFrame = NoFrame

\* mutant: updateFrequency assigns the rendered state as well
GeoUpdateFrequency_Direct(frequency) ==
    /\ geo' = [geo EXCEPT !.frequency = frequency,
                          !.target = ChakraTable[frequency],
                          !.current = ChakraTable[frequency]]
    /\ UNCHANGED <<geoFrame, frames, chladniVars, particleVars, waveVars,
                   fieldVars, hostVars,
                   shadeVars, audioVars, presetVars>>
GeoUpdateFrequency(frequency) ==
    /\ geo' = [geo EXCEPT !.frequency = frequency, !.target = ChakraTable[frequency]]
    /\ UNCHANGED <<geoFrame, frames, chladniVars, particleVars, waveVars,
                   fieldVars, hostVars,
                   shadeVars, audioVars, presetVars>>

GeoSetAmplitude(amplitude) ==
    /\ geo' = [geo EXCEPT !.amplitude = amplitude]
    /\ UNCHANGED <<geoFrame, frames, chladniVars, particleVars, waveVars,
                   fieldVars, hostVars,
                   shadeVars, audioVars, presetVars>>

\* mutant: the field is left as it is
Approach_Stuck(current, target, speed) == current
\* one field of updateState: current += (target - current) * speed
Approach(current, target, speed) == current + ((target - current) * speed) \div Milli
ApproachColor(current, target, speed) ==
    [r |-> Approach(current.r, target.r, speed),
     g |-> Approach(current.g, target.g, speed),
     b |-> Approach(current.b, target.b, speed)]

\* mutant: the speed is dt * 40 without the bound 0.3
updateState_Fast(current, target, dt) ==
    LET speed == dt * 40
    IN  [petals |-> Approach(current.petals, target.petals, speed),
         centralVertices |->
             Approach(current.centralVertices, target.centralVertices, speed),
         rings |-> Approach(current.rings, target.rings, speed),
         gateStyle |-> Approach(current.gateStyle, target.gateStyle, speed),
         sacredForm |-> Approach(current.sacredForm, target.sacredForm, speed),
         color |-> ApproachColor(current.color, target.color, speed),
         innerColor |-> ApproachColor(current.innerColor, target.innerColor, speed),
         rotSpeed |-> Approach(current.rotSpeed, target.rotSpeed, speed),
         complexity |-> Approach(current.complexity, target.complexity, speed)]
\* private updateState(dt), dt in ms: the new this.current
updateState(current, target, dt) ==
    LET speed == Min(dt * 4, 300)
    IN  [petals |-> Approach(current.petals, target.petals, speed),
         centralVertices |->
             Approach(current.centralVertices, target.centralVertices, speed),
         rings |-> Approach(current.rings, target.rings, speed),
         gateStyle |-> Approach(current.gateStyle, target.gateStyle, speed),
         sacredForm |-> Approach(current.sacredForm, target.sacredForm, speed),
         color |-> ApproachColor(current.color, target.color, speed),
         innerColor |-> ApproachColor(current.innerColor, target.innerColor, speed),
         rotSpeed |-> Approach(current.rotSpeed, target.rotSpeed, speed),
         complexity |-> Approach(current.complexity, target.complexity, speed)]

\* Math.round to a whole number (not thousandths)
RoundToInt(v) == (v + 500) \div Milli

\* a sub-drawing of layer 3: which form, the alpha it is drawn with (the
\* factor on the composition alpha, in thousandths) and, for the Flower of
\* Life, blendIn; drawn only when the guard alpha > 0.01 holds
Layer3Form(name, formAlpha, scale, blendIn) ==
    IF formAlpha > 10
    THEN {[form |-> name, alpha |-> (formAlpha * scale) \div Milli, blendIn |-> blendIn]}
    ELSE {}

\* lines 642-692: the forms drawn for sacredForm = form
Layer3(form) ==
    IF form < 1000 THEN
        Layer3Form("seedOfLife", Max(0, 1000 - form), 1000, 0)
        \cup Layer3Form("flowerOfLife", Min(1000, form), 1000, (Min(1000, form) * 3) \div 10)
    ELSE IF form < 2000 THEN
        Layer3Form("flowerOfLife", Max(0, 2000 - form), 800, 1000)
        \cup Layer3Form("sriYantra", Min(1000, form - 1000), 1000, 0)
    ELSE IF form < 3000 THEN
        Layer3Form("sriYantra", Max(0, 3000 - form), 1000, 0)
        \cup Layer3Form("metatronsCube", Min(1000, form - 2000), 1000, 0)
    ELSE IF form < 4000 THEN
        Layer3Form("metatronsCube", Max(0, 4000 - form), 1000, 0)
        \cup Layer3Form("merkaba", Min(1000, form - 3000), 1000, 0)
    ELSE
        Layer3Form("merkaba", Max(0, 5000 - form), 1000, 0)
        \cup Layer3Form("goldenMandala", Min(1000, form - 4000), 1000, 0)

\* mutant: a floor of 0.5 and a span of 0.6
CompositionAlpha_Wide(amplitude) == 500 + (amplitude * 600) \div Milli
\* const alpha = 0.65 + this.amplitude * 0.35
CompositionAlpha(amplitude) == 650 + (amplitude * 350) \div Milli

\* dt in ms: this.time ? timestamp - this.time : 16
GeoDeltaTime(timestamp) == IF geo.time # 0 THEN timestamp - geo.time ELSE 16

\* render(timestamp); storedTime is the value kept in this.time
GeoRenderAt(timestamp, storedTime) ==
    LET dt == GeoDeltaTime(timestamp)
        s == updateState(geo.current, geo.target, Min(dt, 50))
    IN  /\ geo' = [geo EXCEPT !.time = storedTime, !.current = s]
        /\ geoFrame' = [rendered |-> TRUE,
                        alpha |-> CompositionAlpha(geo.amplitude),
                        petals |-> Max(2, RoundToInt(s.petals)),
                        rings |-> Max(1, RoundToInt(s.rings)),
                        layer3 |-> Layer3(s.sacredForm)]

GeoRender(timestamp) ==
    /\ frames < GeoMaxFrames
    /\ frames' = frames + 1
    /\ GeoRenderAt(timestamp, timestamp)
    /\ UNCHANGED <<chladniVars, particleVars, waveVars,
                   fieldVars, hostVars,
                   shadeVars, audioVars, presetVars>>

\* updateFrequency, setAmplitude and render in any order, with any arguments
GeoNext ==
    \/ \E frequency \in GeoFreqs : GeoUpdateFrequency(frequency)
    \/ \E amplitude \in GeoAmplitudes : GeoSetAmplitude(amplitude)
    \/ \E timestamp \in GeoTimestamps : GeoRender(timestamp)

(***************************************************************************)
(* GeometryRenderer driven for ever by the host's animation loop           *)
(* (CymaticVisualizer.tsx lines 116-147): every frame's timestamp is later *)
(* than the one before.  render reads this.time only to tell the first     *)
(* frame (this.time = 0) and to take the difference to the new timestamp,  *)
(* so the clock is kept relative: the elapsed time is the input, and the   *)
(* stored time stops growing at MaxClock.                                  *)
(***************************************************************************)
\* elapsed ms between two frames: the same timestamp twice, 60 Hz, a
\* dropped-frame gap at the cap of 0.05 s, and a pause of 1 s
GeoFrameGaps == {0, 16, 50, 1000}
\* frequencies at or below the lowest anchor
GeoLowFreqs == {10, 120}

\* frames counts the render calls up to MaxIrregular
GeoRenderForward(gap) ==
    /\ gap = 16 \/ frames < MaxIrregular
    /\ frames' = Min(frames + 1, MaxIrregular)
    /\ GeoRenderAt(geo.time + gap, Min(geo.time + gap, MaxClock))
    /\ UNCHANGED <<chladniVars, particleVars, waveVars,
                   fieldVars, hostVars,
                   shadeVars, audioVars, presetVars>>

GeoAnimate == \E gap \in GeoFrameGaps : GeoRenderForward(gap)

GeoLiveNext ==
    \/ \E frequency \in GeoLowFreqs : GeoUpdateFrequency(frequency)
    \/ GeoAnimate

(***************************************************************************)
(* ChladniRenderer and GeometryRenderer side by side, as the host holds    *)
(* them (CymaticVisualizer.tsx lines 107-112 and 116-147): updateFrequency *)
(* and render calls on either renderer, in any order.                      *)
(***************************************************************************)
\* frequencies the host hands to both renderers
HostFreqs == {20, 432, 6000}
\* timestamps the host hands to render, in ms
HostTimestamps == {16, 700}

FrequencyNext ==
    \/ \E frequency \in HostFreqs : ChladniUpdateFrequency(frequency)
    \/ \E frequency \in HostFreqs : GeoUpdateFrequency(frequency)
    \/ \E currentTime \in HostTimestamps : ChladniRender(currentTime)
    \/ \E timestamp \in HostTimestamps : GeoRender(timestamp)

(***************************************************************************)
(* Trigonometry and square roots in fixed point.  Angles are counted in    *)
(* units of pi/60 rad (120 units to the turn); every angle of the model is *)
(* a whole number of units.                                                *)
(***************************************************************************)
\* Math.cos at 0, pi/60, ..., pi/2, in thousandths
QuarterCos ==
    << 1000, 999, 995, 988, 978, 966, 951, 934, 914, 891, 866, 839, 809, 777,
       743, 707, 669, 629, 588, 545, 500, 454, 407, 358, 309, 259, 208, 156,
       105, 52, 0 >>
\* Math.cos(k * pi / 60), in thousandths
Cos60(k) ==
    LET a == k % 120
        b == IF a > 60 THEN 120 - a ELSE a
    IN  IF b <= 30 THEN QuarterCos[b + 1] ELSE -QuarterCos[61 - b]
\* Math.sin(k * pi / 60), in thousandths
Sin60(k) == Cos60(k - 30)

RECURSIVE SqrtSearch(_, _, _)
SqrtSearch(v, lo, hi) ==
    IF lo >= hi THEN lo
    ELSE LET mid == (lo + hi + 1) \div 2
         IN  IF mid * mid <= v THEN SqrtSearch(v, mid, hi)
             ELSE SqrtSearch(v, lo, mid - 1)
\* Math.sqrt, rounded down
Sqrt(v) == SqrtSearch(v, 0, Min(v, 46340))

(***************************************************************************)
(* ParticleSystem (src/visualizer/shaders/chladni.vert.glsl lines 13-209). *)
(* Canvas sizes are in whole pixels; positions, targets and velocities in  *)
(* hundredths of a pixel (Centi); mode numbers in tenths; normalized       *)
(* coordinates in sixths, so that n * PI * x is a whole number of pi/60.   *)
(* Math.random() is an input: a draw is the value it returned.             *)
(***************************************************************************)
Centi == Milli \div 10
margin == 10
SampleAttempts == 20
\* the 0.2 of line 108, in thousandths
Tolerance == (2 * Milli) \div 10
\* let minDistance = Infinity: above every |chladniValue| (at most 2000)
Infinity == Pow2(30)

\* the draws of one particle in initializeParticles: x, y, targetX, targetY,
\* size and brightness in thousandths of Math.random()'s range, noiseOffset
\* (Math.random() * 1000 rad) in units of pi/60: 300 is 5 * pi
ParticleSeeds ==
    { [x |-> 0, y |-> 0, targetX |-> 999, targetY |-> 999,
       size |-> 0, brightness |-> 0, noiseOffset |-> 0],
      [x |-> 999, y |-> 999, targetX |-> 0, targetY |-> 0,
       size |-> 500, brightness |-> 999, noiseOffset |-> 300] }
\* the draws behind Init: one particle, at rest on its target
FixedSeeds ==
    << [x |-> 500, y |-> 500, targetX |-> 500, targetY |-> 500,
        size |-> 500, brightness |-> 500, noiseOffset |-> 0] >>
\* arguments of setParticleCount; the body of every forEach reads and writes
\* its own particle only, so one particle shows what each of them does
ParticleCounts == {0, 1}
\* arguments of resize
ParticleSizes == {[width |-> 24, height |-> 24], [width |-> 12, height |-> 24]}
\* arguments of updateTargets, in tenths: whole modes, and modes with the 0.3
\* that ChladniRenderer.updateFrequency adds
ParticleModes == {<<30, 20>>, <<43, 33>>, <<50, 40>>}
\* deltaTime arguments of update, in ms: a 60 Hz frame, and a frame after the
\* tab was hidden for 100 s
ParticleDeltaTimes == {16, 100000}
\* amplitude arguments of update, in thousandths
ParticleAmplitudes == {0, 1000}
\* time arguments of update, as time * 0.3 in units of pi/60
ParticleTimePhases == {0, 90}

\* one sample of updateTargets is the point centre + (cos(angle), sin(angle)) * r;
\* a sample point is that offset in sixths of half the canvas width and height
SampleGrid == << <<3, 0>>, <<1, 2>>, <<3, 1>>, <<4, 1>>, <<2, 2>>, <<0, 1>> >>
\* the 20 draws of one particle: SampleGrid from start on, every stride-th
\* point (stride 0: the same point 20 times)
SampleRuns == {[start |-> 0, stride |-> 0], [start |-> 0, stride |-> 1],
               [start |-> 0, stride |-> 3]}
SamplePoint(run, attempts) ==
    SampleGrid[((run.start + attempts * run.stride) % Len(SampleGrid)) + 1]
\* r = Math.random() * radius * 0.85 with radius = min(width, height) / 2:
\* the sample lies less than 0.85 * radius from the centre
InSampleDisc(point, canvas) ==
    (10 * point[1] * canvas.width) * (10 * point[1] * canvas.width)
      + (10 * point[2] * canvas.height) * (10 * point[2] * canvas.height)
    < (51 * Min(canvas.width, canvas.height)) * (51 * Min(canvas.width, canvas.height))

NewParticle(seed, canvas) ==
    [x |-> (seed.x * canvas.width * Centi) \div Milli,
     y |-> (seed.y * canvas.height * Centi) \div Milli,
     targetX |-> (seed.targetX * canvas.width * Centi) \div Milli,
     targetY |-> (seed.targetY * canvas.height * Centi) \div Milli,
     vx |-> 0,
     vy |-> 0,
     size |-> (seed.size * 3) \div 2 + 500,
     brightness |-> seed.brightness \div 2 + 500,
     noiseOffset |-> seed.noiseOffset]

\* private initializeParticles(), with the draws of every particle
initializeParticles(count, seeds, canvas) ==
    [i \in 1..count |-> NewParticle(seeds[i], canvas)]

\* the constructor
ParticleConstruct(seeds) ==
    /\ particleSystem =
          [particleCount |-> Len(seeds),
           canvas |-> [width |-> 24, height |-> 24],
           particles |->
               initializeParticles(Len(seeds), seeds, [width |-> 24, height |-> 24])]
    /\ retarget = [called |-> FALSE]

\* the rounding of a double: to the same magnitude for v and -v
Scaled(v) == IF v >= 0 THEN v \div Milli ELSE -((-v) \div Milli)

\* mutant: the two products are added
calculateChladni_Sum(x, y, n, m) ==
    Scaled(Cos60(n * x) * Cos60(m * y) + Cos60(m * x) * Cos60(n * y))
\* private calculateChladni(x, y, n, m): x and y in sixths, n and m in tenths
calculateChladni(x, y, n, m) ==
    Scaled(Cos60(n * x) * Cos60(m * y) - Cos60(m * x) * Cos60(n * y))

\* one pass of the sampling loop, lines 85-98: the point tested and its
\* distance to a nodal line
Sample(canvas, run, attempts, n, m) ==
    LET point == SamplePoint(run, attempts)
        centerX == (canvas.width * Centi) \div 2
        centerY == (canvas.height * Centi) \div 2
        testX == centerX + (point[1] * canvas.width * Centi) \div 12
        testY == centerY + (point[2] * canvas.height * Centi) \div 12
        normX == ((testX - centerX) * 6) \div ((canvas.width * Centi) \div 2)
        normY == ((testY - centerY) * 6) \div ((canvas.height * Centi) \div 2)
        chladniValue == calculateChladni(normX, normY, n, m)
    IN  [testX |-> testX, testY |-> testY, distance |-> Abs(chladniValue)]

\* the samples of every run on every canvas for every pair of modes,
\* computed once
Samples ==
    [canvas \in ParticleSizes, run \in SampleRuns, modes \in ParticleModes |->
        [attempts \in 0..(SampleAttempts - 1) |->
            Sample(canvas, run, attempts, modes[1], modes[2])]]

\* lines 100-104: the best sample so far, after sample s
KeepBest(best, s) ==
    IF s.distance < best.minDistance
    THEN [minDistance |-> s.distance, bestX |-> s.testX, bestY |-> s.testY]
    ELSE best

\* the sampling loop, lines 83-105, from pass attempts on
RECURSIVE SampleLoop(_, _, _)
SampleLoop(samples, attempts, best) ==
    IF attempts >= SampleAttempts THEN best
    ELSE SampleLoop(samples, attempts + 1, KeepBest(best, samples[attempts]))

\* lines 78-80 and 83-105: the best of the samples for one particle
BestSample(particle, samples) ==
    SampleLoop(samples, 0,
               [minDistance |-> Infinity,
                bestX |-> particle.targetX, bestY |-> particle.targetY])

\* mutant: the best sample is taken whatever its distance
AssignTarget_Always(particle, best) ==
    [particle EXCEPT !.targetX = best.bestX, !.targetY = best.bestY]
\* lines 108-111
AssignTarget(particle, best) ==
    IF best.minDistance < Tolerance
    THEN [particle EXCEPT !.targetX = best.bestX, !.targetY = best.bestY]
    ELSE particle

\* updateTargets(modeN, modeM); runs[i] is the draws of particle i.  The
\* record retarget keeps the call.
ParticleUpdateTargets(n, m) ==
    \E runs \in [1..particleSystem.particleCount -> SampleRuns] :
        /\ \A i \in DOMAIN runs : \A attempts \in 0..(SampleAttempts - 1) :
              InSampleDisc(SamplePoint(runs[i], attempts), particleSystem.canvas)
        /\ particleSystem' =
              [particleSystem EXCEPT !.particles =
                  [i \in DOMAIN particleSystem.particles |->
                      AssignTarget(
                          particleSystem.particles[i],
                          BestSample(particleSystem.particles[i],
                                     Samples[particleSystem.canvas, runs[i], <<n, m>>]))]]
        /\ retarget' = [called |-> TRUE, modeN |-> n, modeM |-> m, runs |-> runs]
        /\ UNCHANGED <<frames, chladniVars, geoVars, waveVars,
                   fieldVars, hostVars,
                   shadeVars, audioVars, presetVars>>

\* mutant: a position that leaves the band is set on the edge it crossed
WrapCoordinate_Clamped(v, size) ==
    Max(-(margin * Centi), Min(v, (size + margin) * Centi))
\* lines 161-165, for one coordinate: v the position, size the canvas extent
WrapCoordinate(v, size) ==
    LET low == IF v < -(margin * Centi) THEN (size + margin) * Centi ELSE v
    IN  IF low > (size + margin) * Centi THEN -(margin * Centi) ELSE low

\* lines 139-143: (d / distance) * force * lerpSpeed when distance > 0.1,
\* with force = Math.min(distance * 0.05, 1.0)
Pull(d, distance, lerpSpeed) ==
    IF distance > Centi \div 10
    THEN (((((d * Milli) \div distance) * Min(distance \div 2, Milli)) \div Milli)
             * lerpSpeed) \div (10 * Milli)
    ELSE 0

\* lines 139-154 for one coordinate: the velocity after the pull to the
\* target, the noise and the damping
NewVelocity(v, d, distance, deltaTime, noise) ==
    ((v + Pull(d, distance, 2 * deltaTime) + (noise * deltaTime) \div Milli) * 95)
        \div 100

\* lines 157-168
MoveParticle(particle, canvas, vx, vy, amplitude) ==
    [particle EXCEPT
        !.vx = vx,
        !.vy = vy,
        !.x = WrapCoordinate(particle.x + vx, canvas.width),
        !.y = WrapCoordinate(particle.y + vy, canvas.height),
        !.brightness = 500 + amplitude \div 2]

\* the body of the forEach of update, lines 132-169
UpdateParticle(particle, canvas, deltaTime, amplitude, timePhase) ==
    LET dx == particle.targetX - particle.x
        dy == particle.targetY - particle.y
        noiseX == (Sin60(timePhase + particle.noiseOffset) * 5) \div 10
        noiseY == (Cos60(timePhase + (particle.noiseOffset * 13) \div 10) * 5) \div 10
    IN  MoveParticle(
            particle, canvas,
            NewVelocity(particle.vx, dx, Sqrt(dx * dx + dy * dy), deltaTime, noiseX),
            NewVelocity(particle.vy, dy, Sqrt(dx * dx + dy * dy), deltaTime, noiseY),
            amplitude)

\* update(deltaTime, amplitude, time): ChladniRenderer.render calls it once
\* a frame
ParticleUpdate(deltaTime, amplitude, timePhase) ==
    /\ frames < MaxUpdates
    /\ frames' = frames + 1
    /\ particleSystem' =
          [particleSystem EXCEPT !.particles =
              [i \in DOMAIN particleSystem.particles |->
                  UpdateParticle(particleSystem.particles[i], particleSystem.canvas,
                                 deltaTime, amplitude, timePhase)]]
    /\ retarget' = [called |-> FALSE]
    /\ UNCHANGED <<chladniVars, geoVars, waveVars,
                   fieldVars, hostVars,
                   shadeVars, audioVars, presetVars>>

ParticleSetParticleCount(count) ==
    \E seeds \in [1..count -> ParticleSeeds] :
        /\ particleSystem' =
              [particleSystem EXCEPT
                  !.particleCount = count,
                  !.particles = initializeParticles(count, seeds, particleSystem.canvas)]
        /\ retarget' = [called |-> FALSE]
        /\ UNCHANGED <<frames, chladniVars, geoVars, waveVars,
                   fieldVars, hostVars,
                   shadeVars, audioVars, presetVars>>

ParticleResize(canvas) ==
    \E seeds \in [1..particleSystem.particleCount -> ParticleSeeds] :
        /\ particleSystem' =
              [particleSystem EXCEPT
                  !.canvas = canvas,
                  !.particles =
                      initializeParticles(particleSystem.particleCount, seeds, canvas)]
        /\ retarget' = [called |-> FALSE]
        /\ UNCHANGED <<frames, chladniVars, geoVars, waveVars,
                   fieldVars, hostVars,
                   shadeVars, audioVars, presetVars>>

ParticleNext ==
    \/ \E modes \in ParticleModes : ParticleUpdateTargets(modes[1], modes[2])
    \/ \E deltaTime \in ParticleDeltaTimes, amplitude \in ParticleAmplitudes,
          timePhase \in ParticleTimePhases :
              ParticleUpdate(deltaTime, amplitude, timePhase)
    \/ \E count \in ParticleCounts : ParticleSetParticleCount(count)
    \/ \E canvas \in ParticleSizes : ParticleResize(canvas)

(***************************************************************************)
(* The Chladni field as a function: ParticleSystem.calculateChladni and    *)
(* the expression of ChladniRenderer.render2D (part_003 lines 299-303),    *)
(* evaluated at any point of [-1, 1] x [-1, 1] for any pair of modes.      *)
(* Coordinates in sixths, modes in tenths, values in thousandths.          *)
(***************************************************************************)
\* x and y from -1 to 1 in steps of 1/6
FieldCoordinates == -6..6
\* mode numbers in tenths: whole modes of the clamp range 2..8, and modes
\* with the 0.3 that updateFrequency adds
FieldModes == {20, 30, 33, 43, 50, 80, 83}

\* lines 299-303 of render2D: the same expression on currentModeN and
\* currentModeM
render2DChladni(normX, normY, currentModeN, currentModeM) ==
    Scaled(Cos60(currentModeN * normX) * Cos60(currentModeM * normY)
           - Cos60(currentModeM * normX) * Cos60(currentModeN * normY))

\* the point and the modes behind Init
FixedPoint == [x |-> 0, y |-> 0, n |-> 30, m |-> 20]
\* the points and modes the field is evaluated for
FieldPoints ==
    [x : FieldCoordinates, y : FieldCoordinates, n : FieldModes, m : FieldModes]

\* a point and a pair of modes, not evaluated yet
FieldInit(point) ==
    field = [evaluated |-> FALSE, swapped |-> FALSE,
             x |-> point.x, y |-> point.y, n |-> point.n, m |-> point.m,
             value |-> 0, value2D |-> 0]

\* both expressions at (x, y) for the modes n, m
Evaluation(x, y, n, m, swapped) ==
    [evaluated |-> TRUE, swapped |-> swapped,
     x |-> x, y |-> y, n |-> n, m |-> m,
     value |-> calculateChladni(x, y, n, m),
     value2D |-> render2DChladni(x, y, n, m)]

\* the evaluation at the point for its modes
FieldEvaluate ==
    /\ ~field.evaluated
    /\ field' = Evaluation(field.x, field.y, field.n, field.m, FALSE)
    /\ UNCHANGED <<frames, chladniVars, geoVars, particleVars, waveVars, hostVars,
                   shadeVars, audioVars, presetVars>>

\* the evaluation at the same point with the two modes exchanged
FieldSwapModes ==
    /\ field.evaluated
    /\ field' = Evaluation(field.x, field.y, field.m, field.n, TRUE)
    /\ UNCHANGED <<frames, chladniVars, geoVars, particleVars, waveVars, hostVars,
                   shadeVars, audioVars, presetVars>>

FieldNext == FieldEvaluate \/ FieldSwapModes

(***************************************************************************)
(* WaveRenderer (src/unnamed/part_004).                                    *)
(* Canvas sizes and pixel coordinates in whole pixels; source positions,   *)
(* distances and the wavelength in thousandths of a pixel; phases in       *)
(* thousandths of a turn; time in ms.  A double that may be NaN is a       *)
(* record: Num(v) for the number v, NaN for not-a-number.                  *)
(***************************************************************************)
Num(v) == [nan |-> FALSE, value |-> v]
NaN == [nan |-> TRUE, value |-> 0]

stride == 2

\* the draws of the sources in initializeSources: phase as Math.random() in
\* thousandths of a turn, speed as Math.random() in thousandths
WaveDraws ==
    { << [phase |-> 0, speed |-> 0], [phase |-> 0, speed |-> 0],
         [phase |-> 0, speed |-> 0] >>,
      << [phase |-> 0, speed |-> 0], [phase |-> 250, speed |-> 500],
         [phase |-> 500, speed |-> 999] >> }
\* the draws behind Init
FixedDraws ==
    << [phase |-> 0, speed |-> 0], [phase |-> 0, speed |-> 0],
       [phase |-> 0, speed |-> 0] >>
\* arguments of updateFrequency: the host's range is 20..20000 Hz
WaveFreqs == {20, 432, 1000, 2000, 20000}
\* arguments of setAmplitude, in thousandths
WaveAmplitudes == {0, 300, 1000}
\* arguments of render, in ms
WaveTimestamps == {0, 250}
\* arguments of resize: even and odd widths and heights
WaveSizes == {[width |-> 4, height |-> 4], [width |-> 3, height |-> 3],
              [width |-> 3, height |-> 2], [width |-> 1, height |-> 4]}

\* the position of source i (from 0) of count, lines 45-53 and 188-196
SourcePosition(i, count, width, height) ==
    LET centerX == (width * Milli) \div 2
        centerY == (height * Milli) \div 2
        radius == Min(width, height) * 300
        angle == (i * 120) \div count
    IN  [x |-> centerX + (Cos60(angle) * radius) \div Milli,
         y |-> centerY + (Sin60(angle) * radius) \div Milli]

\* private initializeSources(count), with the draws of every source
initializeSources(draws, width, height) ==
    [i \in 1..Len(draws) |->
        [x |-> SourcePosition(i - 1, Len(draws), width, height).x,
         y |-> SourcePosition(i - 1, Len(draws), width, height).y,
         phase |-> draws[i].phase,
         speed |-> 500 + draws[i].speed \div 2]]

\* the constructor, on a 4 x 4 canvas, with sourceCount = Len(draws)
WaveConstruct(draws) ==
    /\ wave = [width |-> 4, height |-> 4, frequency |-> 432, amplitude |-> 500,
               time |-> 0, sources |-> initializeSources(draws, 4, 4)]
    /\ waveFrame = [rendered |-> FALSE]

WaveUpdateFrequency(frequency) ==
    /\ wave' = [wave EXCEPT !.frequency = frequency]
    /\ UNCHANGED <<waveFrame, frames, chladniVars, geoVars, particleVars,
                   fieldVars, hostVars,
                   shadeVars, audioVars, presetVars>>

WaveSetAmplitude(amplitude) ==
    /\ wave' = [wave EXCEPT !.amplitude = amplitude]
    /\ UNCHANGED <<waveFrame, frames, chladniVars, geoVars, particleVars,
                   fieldVars, hostVars,
                   shadeVars, audioVars, presetVars>>

\* const wavelength = 50 + (1000 - this.frequency) * 0.05, in thousandths
Wavelength(frequency) == 50 * Milli + (1000 - frequency) * 50

\* a division of doubles that rounds towards minus infinity, for b # 0
FloorDiv(a, b) == IF b > 0 THEN a \div b ELSE (-a) \div (-b)

\* Math.sin of an angle given in thousandths of a turn
SinTurns(turns) == Sin60(FloorDiv(turns * 120, Milli))

\* line 85: the wave of one source at pixel (x, y); with wavelength 0 the
\* quotient distance / wavelength is Infinity or NaN and Math.sin gives NaN
SourceWave(source, x, y, time, wavelength) ==
    LET dx == x * Milli - source.x
        dy == y * Milli - source.y
        distance == Sqrt(dx * dx + dy * dy)
    IN  IF wavelength = 0 THEN NaN
        ELSE Num(SinTurns(FloorDiv(distance * Milli, wavelength)
                          - (time * source.speed) \div Milli + source.phase))

\* sum += wave over the sources from index i on
RECURSIVE SumWaves(_, _, _, _, _, _)
SumWaves(sources, i, x, y, time, wavelength) ==
    IF i > Len(sources) THEN Num(0)
    ELSE LET wv == SourceWave(sources[i], x, y, time, wavelength)
             rest == SumWaves(sources, i + 1, x, y, time, wavelength)
         IN  IF wv.nan \/ rest.nan THEN NaN ELSE Num(wv.value + rest.value)

\* private calculateInterference(x, y, time), in thousandths
calculateInterference(x, y, time) ==
    LET sum == SumWaves(wave.sources, 1, x, y, time, Wavelength(wave.frequency))
    IN  IF sum.nan \/ Len(wave.sources) = 0 THEN NaN
        ELSE Num(sum.value \div Len(wave.sources))

\* the store of a double into a Uint8ClampedArray: NaN is 0, a number is
\* rounded to the nearest integer, halves to even, and clamped to 0..255
ToUint8Clamped(v) ==
    IF v.nan THEN 0
    ELSE LET q == v.value \div Milli
             r == v.value % Milli
             rounded == IF r > 500 \/ (r = 500 /\ q % 2 = 1) THEN q + 1 ELSE q
         IN  Max(0, Min(255, rounded))

\* lines 114-137: the colour of the block whose interference is given; every
\* comparison with NaN is false, so NaN takes the last branch
BlockColor(interference, amplitude) ==
    LET intensity ==
            IF interference.nan THEN NaN ELSE Num((interference.value + Milli) \div 2)
        amplifiedIntensity ==
            IF intensity.nan THEN NaN
            ELSE Num((((intensity.value * Sqrt(intensity.value * Milli)) \div Milli)
                         * amplitude) \div Milli)
        a == amplifiedIntensity.value
        rgb ==
            IF ~amplifiedIntensity.nan /\ a < 300
            THEN <<Num(10 * Milli + a * 50), Num(20 * Milli + a * 80),
                   Num(40 * Milli + a * 200)>>
            ELSE IF ~amplifiedIntensity.nan /\ a < 600
            THEN LET t == ((a - 300) * Milli) \div 300
                 IN  <<Num(25 * Milli + t * 75), Num(44 * Milli + t * 156),
                       Num(100 * Milli + t * 155)>>
            ELSE IF amplifiedIntensity.nan
            THEN <<NaN, NaN, Num(255 * Milli)>>
            ELSE LET t == ((a - 600) * Milli) \div 400
                 IN  <<Num(100 * Milli + t * 155), Num(200 * Milli + t * 55),
                       Num(255 * Milli)>>
    IN  <<ToUint8Clamped(rgb[1]), ToUint8Clamped(rgb[2]), ToUint8Clamped(rgb[3]), 255>>

\* the pixels of the frame
Pixels(width, height) == (0..(width - 1)) \X (0..(height - 1))
\* the (x, y) of the two outer loops, lines 109-110
BlockOrigins(width, height) ==
    {p \in Pixels(width, height) : p[1] % stride = 0 /\ p[2] % stride = 0}
\* the pixels written by the two inner loops, lines 140-148
BlockPixels(origin, width, height) ==
    {p \in Pixels(width, height) :
        /\ p[1] - origin[1] \in 0..(stride - 1)
        /\ p[2] - origin[2] \in 0..(stride - 1)}

\* imageData.data after the loops: createImageData gives transparent black
ImageData(time) ==
    [p \in Pixels(wave.width, wave.height) |->
        IF \E origin \in BlockOrigins(wave.width, wave.height) :
              p \in BlockPixels(origin, wave.width, wave.height)
        THEN LET origin == CHOOSE o \in BlockOrigins(wave.width, wave.height) :
                              p \in BlockPixels(o, wave.width, wave.height)
             IN  BlockColor(calculateInterference(origin[1], origin[2], time),
                            wave.amplitude)
        ELSE <<0, 0, 0, 0>>]

\* lines 156-157: the radius of a source's indicator, in thousandths of a
\* pixel; time * 2 rad is time * 382 / 10000 units of pi/60
IndicatorRadius(source, time) ==
    LET pulse == (Sin60((time * 382) \div 10000 + (source.phase * 120) \div Milli) * 3)
                     \div 10 + 700
    IN  (8 * pulse * wave.amplitude) \div Milli

\* render(timestamp)
WaveRender(timestamp) ==
    /\ wave' = [wave EXCEPT !.time = timestamp]
    /\ waveFrame' =
          [rendered |-> TRUE,
           frequency |-> wave.frequency,
           amplitude |-> wave.amplitude,
           data |-> ImageData(timestamp),
           indicators |-> [i \in DOMAIN wave.sources |->
                              IndicatorRadius(wave.sources[i], timestamp)]]
    /\ UNCHANGED <<frames, chladniVars, geoVars, particleVars,
                   fieldVars, hostVars,
                   shadeVars, audioVars, presetVars>>

\* resize(width, height): setting canvas.width clears the canvas
WaveResize(size) ==
    /\ wave' = [wave EXCEPT
                   !.width = size.width,
                   !.height = size.height,
                   !.sources =
                       [i \in DOMAIN wave.sources |->
                           [wave.sources[i] EXCEPT
                               !.x = SourcePosition(i - 1, Len(wave.sources),
                                                    size.width, size.height).x,
                               !.y = SourcePosition(i - 1, Len(wave.sources),
                                                    size.width, size.height).y]]]
    /\ waveFrame' = [rendered |-> FALSE]
    /\ UNCHANGED <<frames, chladniVars, geoVars, particleVars,
                   fieldVars, hostVars,
                   shadeVars, audioVars, presetVars>>

WaveNext ==
    \/ \E frequency \in WaveFreqs : WaveUpdateFrequency(frequency)
    \/ \E amplitude \in WaveAmplitudes : WaveSetAmplitude(amplitude)
    \/ \E timestamp \in WaveTimestamps : WaveRender(timestamp)
    \/ \E size \in WaveSizes : WaveResize(size)

(***************************************************************************)
(* Drawing contexts and GPU objects: the constructors, render and destroy  *)
(* of the three renderers on the host's two canvases (CymaticVisualizer    *)
(* lines 59-105: patternCanvas and particleCanvas).  A canvas holds at     *)
(* most one kind of context; what the browser grants to a first request    *)
(* (a WebGL context, a 2D context, compiled and linked shaders) is an      *)
(* input.  A context or GPU object field of a renderer is TRUE when it is  *)
(* not null.                                                               *)
(***************************************************************************)
\* destroy is called at most MaxDestroys times on each renderer
MaxDestroys == 2

Renderers == {"chladni", "wave", "geometry"}
NotConstructed == [status |-> "none"]
\* the constructor threw: the host's ref stays null
Threw == [status |-> "threw"]

HostInit ==
    /\ canvases = [pattern |-> "none", particle |-> "none"]
    /\ refs = [r \in Renderers |-> NotConstructed]
    /\ gpu = [program |-> "none", positionBuffer |-> "none",
              deleteProgram |-> 0, deleteBuffer |-> 0]
    /\ destroys = [r \in Renderers |-> 0]
    /\ drawn = [renderer |-> "none", layer |-> "none"]

\* HTMLCanvasElement.getContext(kind) is not null: the canvas holds a context
\* of this kind already, or holds none and the browser grants one
getContext(held, kind, granted) ==
    IF held = kind THEN TRUE ELSE held = "none" /\ granted
\* the kind of context the canvas holds after the call
HeldAfter(held, kind, granted) ==
    IF getContext(held, kind, granted) THEN kind ELSE held

\* the ChladniRenderer constructor, lines 43-68, with setupWebGL, lines
\* 73-121, and the ParticleSystem constructor (chladni.vert.glsl lines 36-44)
NewChladniRenderer(useWebGL, webgl, compiled, context2d, particleContext) ==
    LET gl == useWebGL /\ getContext(canvases.pattern, "webgl", webgl)
        afterGl == IF useWebGL THEN HeldAfter(canvases.pattern, "webgl", webgl)
                   ELSE canvases.pattern
        ctx2d == ~gl /\ getContext(afterGl, "2d", context2d)
        afterCtx2d == IF gl THEN afterGl ELSE HeldAfter(afterGl, "2d", context2d)
        particleCtx == getContext(canvases.particle, "2d", particleContext)
    IN  /\ refs.chladni = NotConstructed
        /\ canvases' = [pattern |-> afterCtx2d,
                        particle |-> HeldAfter(canvases.particle, "2d", particleContext)]
        /\ refs' = [refs EXCEPT !.chladni =
              IF ~particleCtx THEN Threw
              ELSE [status |-> "constructed", gl |-> gl, ctx2d |-> ctx2d,
                    program |-> gl /\ compiled, positionBuffer |-> gl /\ compiled]]
        /\ gpu' = IF particleCtx /\ gl /\ compiled
                  THEN [gpu EXCEPT !.program = "live", !.positionBuffer = "live"]
                  ELSE gpu
        /\ UNCHANGED <<destroys, drawn, frames, chladniVars, geoVars, particleVars,
                       waveVars, fieldVars,
                   shadeVars, audioVars, presetVars>>

\* the WaveRenderer constructor, part_004 lines 29-38: getContext('2d')!
NewWaveRenderer(context2d) ==
    /\ refs.wave = NotConstructed
    /\ canvases' = [canvases EXCEPT
                       !.pattern = HeldAfter(canvases.pattern, "2d", context2d)]
    /\ refs' = [refs EXCEPT !.wave =
          [status |-> "constructed",
           ctx |-> getContext(canvases.pattern, "2d", context2d)]]
    /\ UNCHANGED <<gpu, destroys, drawn, frames, chladniVars, geoVars, particleVars,
                   waveVars, fieldVars,
                   shadeVars, audioVars, presetVars>>

\* the GeometryRenderer constructor, geometryRenderer.ts lines 102-112, on
\* options.particleCanvas
NewGeometryRenderer(context2d) ==
    /\ refs.geometry = NotConstructed
    /\ canvases' = [canvases EXCEPT
                       !.particle = HeldAfter(canvases.particle, "2d", context2d)]
    /\ refs' = [refs EXCEPT !.geometry =
          IF getContext(canvases.particle, "2d", context2d)
          THEN [status |-> "constructed", ctx |-> TRUE]
          ELSE Threw]
    /\ UNCHANGED <<gpu, destroys, drawn, frames, chladniVars, geoVars, particleVars,
                   waveVars, fieldVars,
                   shadeVars, audioVars, presetVars>>

\* the host renders a renderer it has constructed and not destroyed
\* (CymaticVisualizer lines 97-104 and 125-140)
Rendering(r) == refs[r].status = "constructed" /\ destroys[r] = 0

\* ChladniRenderer.render, lines 242-246: the path that draws the field layer
FieldLayer(renderer) ==
    IF renderer.gl /\ renderer.program THEN "webgl"
    ELSE IF renderer.ctx2d THEN "2d"
    ELSE "nothing"

ChladniDraw ==
    /\ Rendering("chladni")
    /\ drawn' = [renderer |-> "chladni", layer |-> FieldLayer(refs.chladni)]
    /\ UNCHANGED <<canvases, refs, gpu, destroys, frames, chladniVars, geoVars,
                   particleVars, waveVars, fieldVars,
                   shadeVars, audioVars, presetVars>>

\* WaveRenderer.render, part_004 lines 95-176: with a null ctx the first
\* statement that uses it (line 99) throws a TypeError
WaveDraw ==
    /\ Rendering("wave")
    /\ drawn' = [renderer |-> "wave",
                 layer |-> IF refs.wave.ctx THEN "2d" ELSE "null context"]
    /\ UNCHANGED <<canvases, refs, gpu, destroys, frames, chladniVars, geoVars,
                   particleVars, waveVars, fieldVars,
                   shadeVars, audioVars, presetVars>>

\* GeometryRenderer.render, geometryRenderer.ts lines 603-711
GeoDraw ==
    /\ Rendering("geometry")
    /\ drawn' = [renderer |-> "geometry",
                 layer |-> IF refs.geometry.ctx THEN "2d" ELSE "null context"]
    /\ UNCHANGED <<canvases, refs, gpu, destroys, frames, chladniVars, geoVars,
                   particleVars, waveVars, fieldVars,
                   shadeVars, audioVars, presetVars>>

\* gl.deleteProgram / gl.deleteBuffer on an object: one more call, and the
\* object is deleted
Deleted(object) == IF object = "none" THEN "none" ELSE "deleted"

\* ChladniRenderer.destroy, lines 361-368
ChladniDestroy ==
    /\ refs.chladni.status = "constructed"
    /\ destroys.chladni < MaxDestroys
    /\ destroys' = [destroys EXCEPT !.chladni = @ + 1]
    /\ gpu' = [program |->
                  IF refs.chladni.gl /\ refs.chladni.program
                  THEN Deleted(gpu.program) ELSE gpu.program,
               positionBuffer |->
                  IF refs.chladni.gl /\ refs.chladni.positionBuffer
                  THEN Deleted(gpu.positionBuffer) ELSE gpu.positionBuffer,
               deleteProgram |->
                  IF refs.chladni.gl /\ refs.chladni.program
                  THEN gpu.deleteProgram + 1 ELSE gpu.deleteProgram,
               deleteBuffer |->
                  IF refs.chladni.gl /\ refs.chladni.positionBuffer
                  THEN gpu.deleteBuffer + 1 ELSE gpu.deleteBuffer]
    /\ UNCHANGED <<canvases, refs, drawn, frames, chladniVars, geoVars,
                   particleVars, waveVars, fieldVars,
                   shadeVars, audioVars, presetVars>>

\* WaveRenderer.destroy (part_004 lines 202-204) and GeometryRenderer.destroy
\* (geometryRenderer.ts line 720): empty bodies
EmptyDestroy(r) ==
    /\ refs[r].status = "constructed"
    /\ destroys[r] < MaxDestroys
    /\ destroys' = [destroys EXCEPT ![r] = @ + 1]
    /\ UNCHANGED <<canvases, refs, gpu, drawn, frames, chladniVars, geoVars,
                   particleVars, waveVars, fieldVars,
                   shadeVars, audioVars, presetVars>>
WaveDestroy == EmptyDestroy("wave")
GeoDestroy == EmptyDestroy("geometry")

\* the constructors in any order, each once, then render and destroy calls
HostNext ==
    \/ \E useWebGL \in BOOLEAN, webgl \in BOOLEAN, compiled \in BOOLEAN,
          context2d \in BOOLEAN, particleContext \in BOOLEAN :
              NewChladniRenderer(useWebGL, webgl, compiled, context2d, particleContext)
    \/ \E context2d \in BOOLEAN : NewWaveRenderer(context2d)
    \/ \E context2d \in BOOLEAN : NewGeometryRenderer(context2d)
    \/ ChladniDraw
    \/ WaveDraw
    \/ GeoDraw
    \/ ChladniDestroy
    \/ WaveDestroy
    \/ GeoDestroy

(***************************************************************************)
(* The field layer of ChladniRenderer.render (src/unnamed/part_003 lines   *)
(* 228-340) and the fragment program it runs on the GPU                    *)
(* (src/visualizer/shaders/chladni.frag.glsl).  The pattern canvas is      *)
(* CanvasSize pixels wide and high; shade records one pixel of the frame.  *)
(* Coordinates are in units of 1 / CanvasSize, modes, amplitude and values *)
(* in thousandths, times in ms.                                            *)
(***************************************************************************)
CanvasSize == 4
PatternPixels == 0..(CanvasSize - 1)
ShadeFreqs == {20, 12000}
ShadeTimestamps == {100, 600}

\* const float PI, in thousandths
PI == 3142

\* Math.cos(pi * num / den) in thousandths, den > 0: the table of Cos60 with
\* linear interpolation between its entries
CosPi(num, den) ==
    LET pos == num * 60
        k == pos \div den
        rest == pos % den
    IN  Cos60(k) + ((Cos60(k + 1) - Cos60(k)) * rest) \div den

\* lines 299-303 of render2D: the field at (normX, normY) / CanvasSize
chladniField(normX, normY, n, m) ==
    LET den == Milli * CanvasSize
    IN  Scaled(CosPi(n * normX, den) * CosPi(m * normY, den)
               - CosPi(m * normX, den) * CosPi(n * normY, den))

\* the conversion of a number, in thousandths, stored into a
\* Uint8ClampedArray: rounded to the nearest integer, ties to even, and
\* clamped to 0..255
ToUint8Clamp(v) ==
    LET whole == v \div Milli
        rest == v % Milli
        rounded == IF rest > 500 \/ (rest = 500 /\ whole % 2 = 1)
                   THEN whole + 1 ELSE whole
    IN  Max(0, Min(255, rounded))

\* line 311: data[idx + 3] = intensity * this.amplitude
render2DAlpha(intensity, amplitude) == ToUint8Clamp(intensity * amplitude)

\* lines 296-311 of render2D for the sampled pixel (x, y)
render2DPixel(x, y, n, m, amplitude) ==
    LET normX == 2 * x - CanvasSize
        normY == 2 * y - CanvasSize
        value == chladniField(normX, normY, n, m)
        intensity == IF Abs(value) < 100 THEN 255 ELSE 0
    IN  [value |-> value, nodal |-> Abs(value) < 100,
         alpha |-> render2DAlpha(intensity, amplitude), r |-> 0, intensity |-> 0]

\* lines 321-340: t = (n + m) / 16 and Math.floor(warm + (cool - warm) * t)
getFrequencyColor(currentModeN, currentModeM) ==
    LET sum == currentModeN + currentModeM
    IN  [t |-> sum \div 16,
         r |-> 212 + ((200 - 212) * sum) \div (16 * Milli),
         g |-> 175 + ((220 - 175) * sum) \div (16 * Milli),
         b |-> 55 + ((255 - 55) * sum) \div (16 * Milli)]

\* exp(-n) in millionths for n = 0..13 and exp(-k / 10) in thousandths
ExpWhole == << 1000000, 367879, 135335, 49787, 18316, 6738, 2479, 912, 335,
               123, 45, 17, 6, 2 >>
ExpTenth == << 1000, 905, 819, 741, 670, 607, 549, 497, 449, 407 >>
\* exp(-v), v >= 0
ExpNeg(v) ==
    LET whole == v \div Milli
        tenth == (v % Milli) \div 100
        rest == v % 100
    IN  IF whole > 13 THEN 0
        ELSE (((ExpWhole[whole + 1] * ExpTenth[tenth + 1]) \div (Milli * Milli))
              * (Milli - rest + (rest * rest) \div (2 * Milli))) \div Milli

\* GLSL smoothstep(edge0, edge1, v) for edge0 < edge1
glslSmoothstep(edge0, edge1, v) ==
    Smoothstep(Max(0, Min(Milli, ((v - edge0) * Milli) \div (edge1 - edge0))))

\* line 51, smoothstep(1.0, 0.7, r): GLSL leaves the result undefined when
\* edge0 >= edge1.  The outcomes are the value of the reference formula
\* t * t * (3 - 2 * t) with t = clamp((r - 1.0) / (0.7 - 1.0), 0, 1), and
\* the two ends of the range
MaskOutcomes(r) ==
    {Smoothstep(Max(0, Min(Milli, ((Milli - r) * Milli) \div 300))), 0, Milli}

\* r = length(uv) * 2.0 of the fragment at the centre of pixel (x, y)
fragRadius(x, y) ==
    LET uvx == 2 * x + 1 - CanvasSize
        uvy == 2 * y + 1 - CanvasSize
    IN  Sqrt((uvx * uvx + uvy * uvy) * Milli * Milli) \div CanvasSize

\* line 55: intensity = (nodal * 1.0 + glow * 0.6) * mask
fragIntensity(nodalLine, glow, mask) ==
    ((nodalLine + (glow * 600) \div Milli) * mask) \div Milli

\* main, lines 14-63, for the fragment at the centre of pixel (x, y), where
\* v_texCoord = ((x + 0.5) / CanvasSize, (y + 0.5) / CanvasSize)
fragMain(x, y, u_modeN, u_modeM, u_time, u_amplitude, mask) ==
    LET uvx == 2 * x + 1 - CanvasSize
        uvy == 2 * y + 1 - CanvasSize
        den == Milli * CanvasSize
        raw == Scaled(CosPi(u_modeN * uvx, den) * CosPi(u_modeM * uvy, den)
                      - CosPi(u_modeM * uvx, den) * CosPi(u_modeN * uvy, den))
        \* sin(u_time * 0.5) = cos(pi * (u_time / (2 PI) - 1 / 2))
        breathing == Scaled(CosPi(u_time - PI, 2 * PI) * 50)
        pattern == Scaled((raw + breathing) * (700 + (u_amplitude * 300) \div Milli))
        modeComplexity == (u_modeN + u_modeM) \div 2
        adaptiveThickness ==
            (250 * Milli) \div Max(Milli, (modeComplexity * 150) \div Milli)
        lineThickness == (adaptiveThickness * (Milli + u_amplitude \div 2)) \div Milli
        nodalLine == Milli - glslSmoothstep(0, lineThickness, Abs(pattern))
        glowStrength == (500 * (Milli + u_amplitude)) \div Milli
        glow == (ExpNeg(Abs(pattern) * 6) * glowStrength) \div Milli
    IN  [value |-> pattern, nodal |-> pattern = 0, alpha |-> 255,
         r |-> fragRadius(x, y), intensity |-> fragIntensity(nodalLine, glow, mask)]

NoPixel == [value |-> 0, nodal |-> FALSE, alpha |-> 0, r |-> 0, intensity |-> 0]

ShadeInit ==
    shade = [path |-> "none", time |-> 0, x |-> 0, y |-> 0, amplitude |-> 0,
             color |-> getFrequencyColor(3000, 2000), pixel |-> NoPixel]

\* the values smoothstep(1.0, 0.7, r) can take at pixel (x, y); only the
\* fragment program computes it
ShadeMasks(x, y) ==
    IF Rendering("chladni") /\ FieldLayer(refs.chladni) = "webgl"
    THEN MaskOutcomes(fragRadius(x, y)) ELSE {0}

\* ChladniRenderer.render(currentTime), lines 228-246, observed at the pixel
\* (x, y) of the pattern canvas: render2D samples the pixels with even
\* coordinates, the fragment program runs for every pixel.
\* requestAnimationFrame passes timestamps that never decrease
ChladniShade(currentTime, x, y, mask) ==
    LET deltaTime == ChladniDeltaTime(currentTime)
        n == LerpMode(chladni.currentModeN, chladni.targetModeN, deltaTime)
        m == LerpMode(chladni.currentModeM, chladni.targetModeM, deltaTime)
        time == shade.time + deltaTime
        path == FieldLayer(refs.chladni)
    IN  /\ Rendering("chladni")
        /\ currentTime >= chladni.lastFrameTime
        /\ frames < MaxFrames
        /\ frames' = frames + 1
        /\ path = "2d" => x % 2 = 0 /\ y % 2 = 0
        /\ path = "nothing" => x = 0 /\ y = 0
        /\ chladni' = [chladni EXCEPT !.lastFrameTime = currentTime,
                                      !.currentModeN = n, !.currentModeM = m]
        /\ shade' = [path |-> path, time |-> time, x |-> x, y |-> y,
                     amplitude |-> chladni.amplitude,
                     color |-> getFrequencyColor(n, m),
                     pixel |-> IF path = "webgl"
                               THEN fragMain(x, y, n, m, time, chladni.amplitude, mask)
                               ELSE IF path = "2d"
                               THEN render2DPixel(x, y, n, m, chladni.amplitude)
                               ELSE NoPixel]
        /\ drawn' = [renderer |-> "chladni", layer |-> path]
        /\ UNCHANGED <<canvases, refs, gpu, destroys, chHistory, chRetarget, geoVars,
                       particleVars, waveVars, fieldVars, audioVars, presetVars>>

\* the constructor, then setAmplitude, updateFrequency and render in any order
ShadeNext ==
    \/ \E useWebGL \in BOOLEAN, webgl \in BOOLEAN, compiled \in BOOLEAN,
          context2d \in BOOLEAN, particleContext \in BOOLEAN :
              NewChladniRenderer(useWebGL, webgl, compiled, context2d, particleContext)
    \/ \E amplitude \in ChladniAmplitudes : ChladniSetAmplitude(amplitude)
    \/ \E frequency \in ShadeFreqs : ChladniUpdateFrequency(frequency)
    \/ \E currentTime \in ShadeTimestamps, x \in PatternPixels, y \in PatternPixels :
          \E mask \in ShadeMasks(x, y) : ChladniShade(currentTime, x, y, mask)

(***************************************************************************)
(* The audio engines (src/audio/frequencyEngine.ts, binauralEngine.ts,     *)
(* harmonicEngine.ts, textureEngine.ts) and the App component that drives  *)
(* them (src/App.tsx).  A node field holds 0 for null and otherwise the    *)
(* number of the node graph the node belongs to; audio.created counts the  *)
(* graphs created and audio.connected holds the graphs whose nodes are     *)
(* still connected.  A method of an engine is an operator from the audio   *)
(* state before the call to the audio state after it.  Timers hold the     *)
(* time left in ms; time passes in steps of 100 ms while no timer is due.  *)
(***************************************************************************)
MaxGraphs == 2
MaxTimers == 2
MaxLayers == 1
\* setTimeout(() => this.cleanup(), 600)
CleanupDelay == 600
\* setTimeout(() => textureEngine.current.start(...), 100)
StartDelay == 100

Engines == {"frequencyEngine", "binauralEngine", "harmonicEngine", "textureEngine"}
Textures == {"none", "rain", "ocean"}

AudioInit ==
    audio = [frequencyEngine |-> [isPlaying |-> FALSE, oscillator |-> 0, gainNode |-> 0],
             binauralEngine |->
                [isPlaying |-> FALSE, leftOscillator |-> 0, rightOscillator |-> 0,
                 leftGain |-> 0, rightGain |-> 0, leftPanner |-> 0, rightPanner |-> 0],
             harmonicEngine |-> [isPlaying |-> FALSE, layers |-> <<>>],
             textureEngine |->
                [isPlaying |-> FALSE, currentTexture |-> "none", source |-> 0,
                 gainNode |-> 0, filterNode |-> 0, lfoOscillator |-> 0, lfoGain |-> 0],
             timers |-> <<>>,
             created |-> 0,
             connected |-> {},
             calls |-> [e \in Engines |-> [method |-> "none", texture |-> "none"]]]

\* setTimeout(callback, delay)
SetTimeout(a, callback, texture, delay) ==
    [a EXCEPT !.timers = Append(@, [callback |-> callback, texture |-> texture,
                                    remaining |-> delay])]

\* the call of a public method has returned
Returned(a, engine, method, texture) ==
    [a EXCEPT !.calls[engine] = [method |-> method, texture |-> texture]]

\* FrequencyEngine.start, lines 17-50; updateFrequency and updateVolume
\* change no field of the model
FrequencyStart(a) ==
    IF a.frequencyEngine.isPlaying THEN a
    ELSE LET id == a.created + 1
         IN  [a EXCEPT !.created = id,
                       !.connected = @ \cup {id},
                       !.frequencyEngine =
                            [isPlaying |-> TRUE, oscillator |-> id, gainNode |-> id]]

\* FrequencyEngine.stop, lines 55-74
FrequencyStop(a) ==
    LET e == a.frequencyEngine
    IN  IF ~e.isPlaying \/ e.oscillator = 0 \/ e.gainNode = 0 THEN a
        ELSE [SetTimeout(a, "frequencyCleanup", "none", CleanupDelay)
                EXCEPT !.frequencyEngine.isPlaying = FALSE]

\* FrequencyEngine.cleanup, lines 114-132
FrequencyCleanup(a) ==
    [a EXCEPT !.connected = @ \ {a.frequencyEngine.oscillator, a.frequencyEngine.gainNode},
              !.frequencyEngine.oscillator = 0,
              !.frequencyEngine.gainNode = 0]

\* BinauralEngine.start, lines 35-91
BinauralStart(a) ==
    IF a.binauralEngine.isPlaying THEN a
    ELSE LET id == a.created + 1
         IN  [a EXCEPT !.created = id,
                       !.connected = @ \cup {id},
                       !.binauralEngine =
                            [isPlaying |-> TRUE, leftOscillator |-> id,
                             rightOscillator |-> id, leftGain |-> id, rightGain |-> id,
                             leftPanner |-> id, rightPanner |-> id]]

\* BinauralEngine.stop, lines 96-119
BinauralStop(a) ==
    LET e == a.binauralEngine
    IN  IF ~e.isPlaying \/ e.leftGain = 0 \/ e.rightGain = 0 THEN a
        ELSE [SetTimeout(a, "binauralCleanup", "none", CleanupDelay)
                EXCEPT !.binauralEngine.isPlaying = FALSE]

\* BinauralEngine.cleanup, lines 158-184
BinauralCleanup(a) ==
    LET e == a.binauralEngine
    IN  [a EXCEPT !.connected = @ \ {e.leftOscillator, e.rightOscillator, e.leftGain,
                                     e.rightGain, e.leftPanner, e.rightPanner},
                  !.binauralEngine =
                        [isPlaying |-> e.isPlaying, leftOscillator |-> 0,
                         rightOscillator |-> 0, leftGain |-> 0, rightGain |-> 0,
                         leftPanner |-> 0, rightPanner |-> 0]]

\* HarmonicEngine.addLayer, lines 84-112: the nodes of a new layer are null
HarmonicAddLayer(a) ==
    [a EXCEPT !.harmonicEngine.layers = Append(@, [oscillator |-> 0, gainNode |-> 0])]

\* HarmonicEngine.start, lines 194-199: startLayer builds the oscillator, the
\* gain node and the modulation nodes of each layer
HarmonicStart(a) ==
    IF a.harmonicEngine.isPlaying THEN a
    ELSE LET count == Len(a.harmonicEngine.layers)
         IN  [a EXCEPT !.created = @ + count,
                       !.connected = @ \cup {a.created + i : i \in 1..count},
                       !.harmonicEngine =
                            [isPlaying |-> TRUE,
                             layers |-> [i \in 1..count |->
                                [oscillator |-> a.created + i,
                                 gainNode |-> a.created + i]]]]

\* HarmonicEngine.stop, lines 357-398
HarmonicStop(a) ==
    IF ~a.harmonicEngine.isPlaying THEN a
    ELSE [SetTimeout(a, "harmonicCleanup", "none", CleanupDelay)
            EXCEPT !.harmonicEngine.isPlaying = FALSE]

\* this.layers.forEach((layer) => this.stopLayer(layer)), lines 403-437
HarmonicStopLayers(a) ==
    LET layers == a.harmonicEngine.layers
    IN  [a EXCEPT !.connected = @ \ ({layers[i].oscillator : i \in DOMAIN layers}
                                     \cup {layers[i].gainNode : i \in DOMAIN layers}),
                  !.harmonicEngine.layers =
                        [i \in DOMAIN layers |-> [oscillator |-> 0, gainNode |-> 0]]]

\* HarmonicEngine.stopImmediate, lines 480-485
HarmonicStopImmediate(a) ==
    IF ~a.harmonicEngine.isPlaying THEN a
    ELSE [HarmonicStopLayers(a) EXCEPT !.harmonicEngine.isPlaying = FALSE]

\* HarmonicEngine.clearLayers, lines 127-130
HarmonicClearLayers(a) ==
    [HarmonicStopLayers(a) EXCEPT !.harmonicEngine.layers = <<>>]

\* TextureEngine.stop, lines 82-102
TextureStop(a) ==
    LET e == a.textureEngine
    IN  IF ~e.isPlaying \/ e.gainNode = 0 THEN a
        ELSE [SetTimeout(a, "textureCleanup", "none", CleanupDelay)
                EXCEPT !.textureEngine.isPlaying = FALSE]

\* TextureEngine.start, lines 23-77; addLFO (lines 260-283) runs for
\* 'warm-pad' and 'ocean' only
TextureStart(a, texture) ==
    IF texture = "none" THEN TextureStop(a)
    ELSE IF a.textureEngine.isPlaying /\ a.textureEngine.currentTexture = texture THEN a
    ELSE LET stopped == IF a.textureEngine.isPlaying THEN TextureStop(a) ELSE a
             id == stopped.created + 1
             lfo == texture \in {"warm-pad", "ocean"}
         IN  [stopped EXCEPT
                !.created = id,
                !.connected = @ \cup {id},
                !.textureEngine =
                    [isPlaying |-> TRUE, currentTexture |-> texture, source |-> id,
                     gainNode |-> id, filterNode |-> id,
                     lfoOscillator |-> IF lfo THEN id ELSE @.lfoOscillator,
                     lfoGain |-> IF lfo THEN id ELSE @.lfoGain]]

\* TextureEngine.cleanup, lines 288-312
TextureCleanup(a) ==
    LET e == a.textureEngine
    IN  [a EXCEPT !.connected = @ \ {e.source, e.gainNode, e.filterNode,
                                     e.lfoOscillator, e.lfoGain},
                  !.textureEngine =
                        [isPlaying |-> e.isPlaying, currentTexture |-> e.currentTexture,
                         source |-> 0, gainNode |-> 0, filterNode |-> 0,
                         lfoOscillator |-> 0, lfoGain |-> 0]]

\* the sequence without its element at index
RemoveAt(seq, index) ==
    [i \in 1..(Len(seq) - 1) |-> IF i < index THEN seq[i] ELSE seq[i + 1]]

\* the callback of a timer
RunCallback(a, timer) ==
    IF timer.callback = "frequencyCleanup" THEN FrequencyCleanup(a)
    ELSE IF timer.callback = "binauralCleanup" THEN BinauralCleanup(a)
    ELSE IF timer.callback = "harmonicCleanup" THEN HarmonicStopLayers(a)
    ELSE IF timer.callback = "textureCleanup" THEN TextureCleanup(a)
    ELSE Returned(TextureStart(a, timer.texture), "textureEngine", "start", timer.texture)

AudioUnchanged ==
    UNCHANGED <<frames, chladniVars, geoVars, particleVars, waveVars, fieldVars,
                hostVars, shadeVars, presetVars>>

\* 100 ms pass; a timer that is due fires before more time passes
AudioTick ==
    /\ audio.timers # <<>>
    /\ \A i \in DOMAIN audio.timers : audio.timers[i].remaining > 0
    /\ audio' = [audio EXCEPT !.timers =
            [i \in DOMAIN @ |-> [@[i] EXCEPT !.remaining = Max(0, @ - 100)]]]
    /\ UNCHANGED app
    /\ AudioUnchanged

\* the first timer that is due fires
TimerFire ==
    /\ \E i \in DOMAIN audio.timers :
        /\ audio.timers[i].remaining = 0
        /\ \A j \in 1..(i - 1) : audio.timers[j].remaining > 0
        /\ audio' = RunCallback([audio EXCEPT !.timers = RemoveAt(@, i)],
                                audio.timers[i])
    /\ UNCHANGED app
    /\ AudioUnchanged

\* a call of a public method of an engine that leaves the audio state after,
\* within the bounds on the graphs created and on the pending timers
EngineCall(after, engine, method, texture) ==
    /\ after.created <= MaxGraphs
    /\ Len(after.timers) <= MaxTimers
    /\ audio' = Returned(after, engine, method, texture)
    /\ UNCHANGED app
    /\ AudioUnchanged

FrequencyEngineStart ==
    EngineCall(FrequencyStart(audio), "frequencyEngine", "start", "none")
FrequencyEngineStop ==
    EngineCall(FrequencyStop(audio), "frequencyEngine", "stop", "none")
BinauralEngineStart ==
    EngineCall(BinauralStart(audio), "binauralEngine", "start", "none")
BinauralEngineStop ==
    EngineCall(BinauralStop(audio), "binauralEngine", "stop", "none")
\* App adds layers to a stopped engine only (App.tsx lines 187-192)
HarmonicEngineAddLayer ==
    /\ ~audio.harmonicEngine.isPlaying
    /\ Len(audio.harmonicEngine.layers) < MaxLayers
    /\ EngineCall(HarmonicAddLayer(audio), "harmonicEngine", "addLayer", "none")
HarmonicEngineStart ==
    EngineCall(HarmonicStart(audio), "harmonicEngine", "start", "none")
HarmonicEngineStop ==
    EngineCall(HarmonicStop(audio), "harmonicEngine", "stop", "none")
TextureEngineStart(texture) ==
    EngineCall(TextureStart(audio, texture), "textureEngine", "start", texture)
TextureEngineStop ==
    EngineCall(TextureStop(audio), "textureEngine", "stop", "none")

\* start and stop of every engine and the timers, in any order
EngineNext ==
    \/ FrequencyEngineStart
    \/ FrequencyEngineStop
    \/ BinauralEngineStart
    \/ BinauralEngineStop
    \/ HarmonicEngineAddLayer
    \/ HarmonicEngineStart
    \/ HarmonicEngineStop
    \/ \E texture \in Textures : TextureEngineStart(texture)
    \/ TextureEngineStop
    \/ AudioTick
    \/ TimerFire

\* App, lines 33-45: the state the handlers below read and write
AppInit ==
    app = [isPlaying |-> FALSE, binauralEnabled |-> FALSE, texture |-> "none",
           harmonicsEnabled |-> FALSE, harmonicLayers |-> 0]

\* a handler of App that leaves the audio state after and the App state
\* appAfter, within the bounds on the graphs created and on the pending timers
AppCall(after, appAfter) ==
    /\ after.created <= MaxGraphs
    /\ Len(after.timers) <= MaxTimers
    /\ audio' = after
    /\ app' = appAfter
    /\ AudioUnchanged

\* handlePlayToggle, lines 59-90, with the audio context initialized
handlePlayToggle ==
    LET stopped ==
            LET a1 == FrequencyStop(audio)
                a2 == IF app.binauralEnabled THEN BinauralStop(a1) ELSE a1
                a3 == TextureStop(a2)
            IN  IF app.harmonicsEnabled THEN HarmonicStop(a3) ELSE a3
        started ==
            LET a1 == FrequencyStart(audio)
                a2 == IF app.binauralEnabled THEN BinauralStart(a1) ELSE a1
                a3 == IF app.texture # "none" THEN TextureStart(a2, app.texture) ELSE a2
            IN  IF app.harmonicsEnabled /\ app.harmonicLayers > 0
                THEN HarmonicStart(a3) ELSE a3
    IN  AppCall(IF app.isPlaying THEN stopped ELSE started,
                [app EXCEPT !.isPlaying = ~@])

\* handleBinauralEnabledChange, lines 113-122
handleBinauralEnabledChange(enabled) ==
    AppCall(IF ~app.isPlaying THEN audio
            ELSE IF enabled THEN BinauralStart(audio) ELSE BinauralStop(audio),
            [app EXCEPT !.binauralEnabled = enabled])

\* lines 149-154 and 319-324: stop the texture and start the new one 100 ms
\* later
ChangeTexture(a, newTexture) ==
    LET stopped == TextureStop(a)
    IN  IF newTexture # "none"
        THEN SetTimeout(stopped, "textureStart", newTexture, StartDelay)
        ELSE stopped

\* handleTextureChange, lines 146-156
handleTextureChange(newTexture) ==
    AppCall(IF app.isPlaying THEN ChangeTexture(audio, newTexture) ELSE audio,
            [app EXCEPT !.texture = newTexture])

\* handleHarmonicsEnabledChange, lines 167-176
handleHarmonicsEnabledChange(enabled) ==
    AppCall(IF ~app.isPlaying THEN audio
            ELSE IF enabled /\ app.harmonicLayers > 0 THEN HarmonicStart(audio)
            ELSE HarmonicStop(audio),
            [app EXCEPT !.harmonicsEnabled = enabled])

RECURSIVE AddLayers(_, _)
\* newLayers.forEach(layer => harmonicEngine.current.addLayer(...))
AddLayers(a, count) ==
    IF count = 0 THEN a ELSE AddLayers(HarmonicAddLayer(a), count - 1)

\* handleAddHarmonicLayer, lines 179-198, called while harmonics are enabled
handleAddHarmonicLayer ==
    LET rebuilt == AddLayers(HarmonicClearLayers(HarmonicStopImmediate(audio)),
                             app.harmonicLayers + 1)
    IN  /\ app.harmonicsEnabled
        /\ app.harmonicLayers < MaxLayers
        /\ AppCall(IF app.isPlaying THEN HarmonicStart(rebuilt) ELSE rebuilt,
                   [app EXCEPT !.harmonicLayers = @ + 1])

\* the fields of a preset the audio state depends on
AppPresets == [binauralEnabled : BOOLEAN, texture : Textures]

\* handleLoadPreset, lines 295-329
handleLoadPreset(preset) ==
    LET a1 == IF preset.binauralEnabled /\ ~app.binauralEnabled THEN BinauralStart(audio)
              ELSE IF ~preset.binauralEnabled /\ app.binauralEnabled THEN BinauralStop(audio)
              ELSE audio
        a2 == IF preset.texture # app.texture THEN ChangeTexture(a1, preset.texture)
              ELSE a1
    IN  AppCall(IF app.isPlaying THEN a2 ELSE audio,
                [app EXCEPT !.binauralEnabled = preset.binauralEnabled,
                            !.texture = preset.texture])

\* the handlers of App and the timers, in any order
AppNext ==
    \/ handlePlayToggle
    \/ \E enabled \in BOOLEAN : handleBinauralEnabledChange(enabled)
    \/ \E newTexture \in Textures : handleTextureChange(newTexture)
    \/ \E enabled \in BOOLEAN : handleHarmonicsEnabledChange(enabled)
    \/ handleAddHarmonicLayer
    \/ \E preset \in AppPresets : handleLoadPreset(preset)
    \/ AudioTick
    \/ TimerFire

(***************************************************************************)
(* Presets (src/unnamed/part_001 lines 34-106) and the PresetManager       *)
(* component (src/components/PresetManager.tsx lines 20-44).  A preset is  *)
(* its name and its frequency.  The presets are plain data, which          *)
(* JSON.stringify and JSON.parse give back as they were stored.            *)
(***************************************************************************)
DEFAULT_PRESETS ==
    << [name |-> "Deep Sleep", frequency |-> 174],
       [name |-> "Focus Flow", frequency |-> 528],
       [name |-> "Morning Reset", frequency |-> 432] >>

\* what the user types into the name field, and its trim()
NameInputs == {"", "  ", "Mine", " Mine ", "Evening", "Deep Sleep", "Focus Flow"}
Trim(presetName) ==
    IF presetName = "  " THEN ""
    ELSE IF presetName = " Mine " THEN "Mine"
    ELSE presetName
\* the frequency of the current preset
PresetFrequencies == {432, 528}

\* the item is absent until the first setItem
PresetInit ==
    /\ localStorage = [stored |-> FALSE, presets |-> <<>>]
    /\ allPresets = DEFAULT_PRESETS

\* loadCustomPresets, lines 88-96, of the item
loadCustomPresets(item) == IF item.stored THEN item.presets ELSE <<>>

\* savePreset, lines 75-86: the item after savePreset(preset)
savePreset(item, preset) ==
    LET presets == loadCustomPresets(item)
        found == {i \in DOMAIN presets : presets[i].name = preset.name}
    IN  [stored |-> TRUE,
         presets |-> IF found # {}
                     THEN [presets EXCEPT ![CHOOSE i \in found : \A j \in found : i <= j] = preset]
                     ELSE Append(presets, preset)]

\* deletePreset, lines 98-102: the item after deletePreset(name)
deletePreset(item, name) ==
    [stored |-> TRUE,
     presets |-> SelectSeq(loadCustomPresets(item), LAMBDA q : q.name # name)]

\* getAllPresets, lines 104-106
getAllPresets(item) == DEFAULT_PRESETS \o loadCustomPresets(item)

PresetUnchanged ==
    UNCHANGED <<frames, chladniVars, geoVars, particleVars, waveVars, fieldVars,
                hostVars, shadeVars, audioVars>>

\* handleSave, PresetManager.tsx lines 24-32
handleSave(presetName, frequency) ==
    /\ Trim(presetName) # ""
    /\ localStorage' = savePreset(localStorage,
                                  [name |-> Trim(presetName), frequency |-> frequency])
    /\ allPresets' = getAllPresets(localStorage')
    /\ PresetUnchanged

\* handleDelete, PresetManager.tsx lines 34-44: a default preset is refused,
\* another one is deleted when the user confirms
handleDelete(name) ==
    /\ \A i \in DOMAIN DEFAULT_PRESETS : DEFAULT_PRESETS[i].name # name
    /\ localStorage' = deletePreset(localStorage, name)
    /\ allPresets' = getAllPresets(localStorage')
    /\ PresetUnchanged

\* the delete button of a listed preset and the save dialog, in any order
PresetNext ==
    \/ \E presetName \in NameInputs, frequency \in PresetFrequencies :
            handleSave(presetName, frequency)
    \/ \E i \in DOMAIN allPresets : handleDelete(allPresets[i].name)

(***************************************************************************)
(* Specifications.  The host constructs every renderer once.  The draws of *)
(* Math.random() in the constructors of ParticleSystem and WaveRenderer    *)
(* and the arguments of the field function are inputs: ParticleSpec,       *)
(* WaveSpec and FieldSpec start from every input of their own component;   *)
(* the other specifications, which never read these variables, start from  *)
(* FixedSeeds, FixedDraws and FixedPoint.  HostSpec follows the contexts   *)
(* and GPU objects of the renderers from before their construction.        *)
(***************************************************************************)
Start(seeds, draws, point) ==
    /\ ChladniInit
    /\ GeoInit
    /\ ParticleConstruct(seeds)
    /\ WaveConstruct(draws)
    /\ FieldInit(point)
    /\ HostInit
    /\ ShadeInit
    /\ AudioInit
    /\ AppInit
    /\ PresetInit
    /\ frames = 0

Init == Start(FixedSeeds, FixedDraws, FixedPoint)
ParticleInit ==
    \E count \in ParticleCounts : \E seeds \in [1..count -> ParticleSeeds] :
        Start(seeds, FixedDraws, FixedPoint)
WaveInit == \E draws \in WaveDraws : Start(FixedSeeds, draws, FixedPoint)
FieldStart == \E point \in FieldPoints : Start(FixedSeeds, FixedDraws, point)

ChladniSpec == Init /\ [][ChladniNext]_vars
GeoSpec == Init /\ [][GeoNext]_vars
\* requestAnimationFrame keeps calling render
GeoLiveSpec == Init /\ [][GeoLiveNext]_vars /\ WF_vars(GeoAnimate)
ParticleSpec == ParticleInit /\ [][ParticleNext]_vars
WaveSpec == WaveInit /\ [][WaveNext]_vars
FrequencySpec == Init /\ [][FrequencyNext]_vars
FieldSpec == FieldStart /\ [][FieldNext]_vars
HostSpec == Init /\ [][HostNext]_vars
ShadeSpec == Init /\ [][ShadeNext]_vars
EngineSpec == Init /\ [][EngineNext]_vars
AppSpec == Init /\ [][AppNext]_vars
PresetSpec == Init /\ [][PresetNext]_vars

(***************************************************************************)
(* Claims about ChladniRenderer.updateFrequency and render.                *)
(***************************************************************************)
\* the last updateFrequency call and the one before it
LastCall == chHistory[Len(chHistory)]
PrevCall == chHistory[1]
\* the last two calls were updateFrequency(f1) and then updateFrequency(2 * f1),
\* both frequencies in the valid range 20..20000 Hz
OctaveApart ==
    /\ Len(chHistory) = 2
    /\ PrevCall.frequency >= 20
    /\ LastCall.frequency <= 20000
    /\ LastCall.frequency = 2 * PrevCall.frequency

\* C5 as stated: one octave up, the target mode n is exactly 1 higher.
C5_OctaveStepAlways ==
    OctaveApart => LastCall.targetModeN - PrevCall.targetModeN = Milli

\* neither frequency has its rounded mode n cut by the clamp to [2, 8]:
\* 200 * 2^-1.5 = 70.7 Hz <= f1 and f2 < 200 * 2^5.5 = 9050.9 Hz
OctaveUnclamped == PrevCall.frequency >= 71 /\ LastCall.frequency <= 9050

\* C5 (amended): for f2 = 2 * f1 in the valid range, the target mode n of f2
\* is exactly 1 above that of f1 when neither is cut by the clamp to [2, 8]
\* (f1 >= 71 Hz and f2 <= 9050 Hz), and equal to it otherwise.
C5_OctaveStepUnclamped ==
    OctaveApart =>
        LastCall.targetModeN - PrevCall.targetModeN =
            IF OctaveUnclamped THEN Milli ELSE 0

\* updateFrequency(350) then updateFrequency(700): 4.3 then 5.3
C5_Witness ==
    /\ OctaveApart
    /\ OctaveUnclamped
    /\ PrevCall.targetModeN = 4300
    /\ LastCall.targetModeN = 5300
    /\ chladni.targetModeN = 5300

\* clamp(v, 2, 8) without rounding: the continuous mode number
ClampMode(mode) == Max(2 * Milli, Min(8 * Milli, mode))

RoundedTarget(target, mode, frac) ==
    LET nudge == target % Milli
        whole == target - nudge
    IN  /\ nudge = (IF frac > 700 THEN 300 ELSE 0)
        /\ whole >= 2 * Milli
        /\ whole <= 8 * Milli
        /\ Abs(whole - ClampMode(mode)) <= 500

InModeRange(mode) == mode >= 2 * Milli /\ mode <= 8 * Milli

\* C7 as stated: all four mode numbers stay in the clamped range [2, 8].
C7_ModesInRange ==
    /\ InModeRange(chladni.currentModeN)
    /\ InModeRange(chladni.currentModeM)
    /\ InModeRange(chladni.targetModeN)
    /\ InModeRange(chladni.targetModeM)

\* C21 as stated: for f1 <= f2 in 20..20000 Hz the targets set by
\* updateFrequency(f1) are at most those set by updateFrequency(f2), in n
\* and in m.
C21_TargetsMonotone ==
    (/\ Len(chHistory) = 2
     /\ PrevCall.frequency >= 20
     /\ LastCall.frequency <= 20000
     /\ PrevCall.frequency <= LastCall.frequency) =>
        /\ PrevCall.targetModeN <= LastCall.targetModeN
        /\ PrevCall.targetModeM <= LastCall.targetModeM

\* v is within 0.5 of the whole mode number whole
Approximately(v, whole) == Abs(v - whole * Milli) <= 500

ForwardRender ==
    /\ frames' = frames + 1
    /\ chladni'.lastFrameTime >= chladni.lastFrameTime

\* a render step leaves each current mode between its previous value and
\* the target
C17_RenderStep ==
    ForwardRender =>
        /\ Between(chladni'.currentModeN, chladni.currentModeN, chladni.targetModeN)
        /\ Between(chladni'.currentModeM, chladni.currentModeM, chladni.targetModeM)

\* C17 as stated: for every non-negative gap between render timestamps,
\* also far above 0.5 s, each render leaves currentModeN and currentModeM
\* between their previous values and their targets (no overshoot).
C17_NoOvershoot == [][C17_RenderStep]_vars

\* the modes handed to the last particleSystem.updateTargets call are within
\* 0.5 of the present targets
RetargetFresh ==
    chRetarget # <<>> =>
        /\ Abs(chRetarget[1] - chladni.targetModeN) <= 500
        /\ Abs(chRetarget[2] - chladni.targetModeM) <= 500

\* a render step makes no updateTargets call
C20_RenderStep == frames' = frames + 1 => chRetarget' = chRetarget

\* C20 as stated: after any sequence of updateFrequency and render calls the
\* modes passed to the most recent updateTargets call differ from the
\* present target modes by at most 0.5 in n and in m, and render never calls
\* updateTargets.
C20_RetargetOnChange == []RetargetFresh /\ [][C20_RenderStep]_vars

(***************************************************************************)
(* Claims about GeometryRenderer.                                          *)
(***************************************************************************)
\* the thirteen numbers of a ChakraState
Fields(state) ==
    <<state.petals, state.centralVertices, state.rings, state.gateStyle,
      state.color.r, state.color.g, state.color.b,
      state.innerColor.r, state.innerColor.g, state.innerColor.b,
      state.rotSpeed, state.complexity, state.sacredForm>>
FieldIds == 1..13
\* petals, centralVertices and rings
CountFieldIds == {1, 2, 3}

Segments == 1..(Len(CHAKRAS) - 1)

\* C3: at the frequency of the lower anchor of a segment (t = 0) the target
\* set by updateFrequency is exactly the lower anchor's state, and at the
\* frequency of the upper anchor (t = 1) exactly the upper anchor's state,
\* in every field.
C3_AnchorsExact ==
    \A i \in Segments :
        /\ geo.frequency = CHAKRAS[i].freq =>
              Fields(geo.target) = Fields(CHAKRAS[i].state)
        /\ geo.frequency = CHAKRAS[i + 1].freq =>
              Fields(geo.target) = Fields(CHAKRAS[i + 1].state)

\* updateFrequency(450): the upper anchor of segment 2 and the lower anchor
\* of segment 3; the code reaches it through segment 2 with t = 1
C3_Witness ==
    /\ geo.frequency = 450
    /\ FindSegment(450, 1) = <<2, 3>>
    /\ geo.target = CHAKRAS[3].state
    /\ geo.target.petals = 10000
    /\ geo.target.color = Rgb(250, 210, 30)


\* geo.frequency lies strictly inside segment i
InsideSegment(i) ==
    CHAKRAS[i].freq < geo.frequency /\ geo.frequency < CHAKRAS[i + 1].freq

C4_Interpolation ==
    /\ \A i \in Segments : InsideSegment(i) =>
          LET lo == Fields(CHAKRAS[i].state)
              hi == Fields(CHAKRAS[i + 1].state)
              at == Fields(geo.target)
          IN  \* every field lies between the two anchors' values
              /\ \A k \in FieldIds : Between(at[k], lo[k], hi[k])
              \* and moves from the lower towards the upper anchor's value as
              \* the frequency rises inside the segment
              /\ \A g \in GeoFreqs :
                    (CHAKRAS[i].freq <= g /\ g <= geo.frequency) =>
                        \A k \in FieldIds :
                            Between(Fields(ChakraTable[g])[k], lo[k], at[k])
              \* the counts are not rounded: strictly between two anchors
              \* that differ
              /\ \A k \in CountFieldIds :
                    lo[k] # hi[k] => StrictlyBetween(at[k], lo[k], hi[k])
    \* sacredForm is non-decreasing in frequency over the whole range
    /\ \A g \in GeoFreqs :
          g <= geo.frequency => ChakraTable[g].sacredForm <= geo.target.sacredForm

\* a render step: it leaves target alone, moves each count of current by the
\* damped share of its distance to the target, unrounded, and draws the
\* rounded counts
C4_RenderStep ==
    geoFrame' # geoFrame =>
        LET speed == Min(Min(GeoDeltaTime(geo'.time), 50) * 4, 300)
            was == Fields(geo.current)
            now == Fields(geo'.current)
            to == Fields(geo.target)
        IN  /\ geo'.target = geo.target
            /\ \A k \in CountFieldIds :
                  now[k] - was[k] = ((to[k] - was[k]) * speed) \div Milli
            /\ geoFrame'.petals = Max(2, RoundToInt(geo'.current.petals))
            /\ geoFrame'.rings = Max(1, RoundToInt(geo'.current.rings))

\* C4: inside a segment every field of getChakraState lies between the two
\* anchors' values and varies monotonically with frequency, sacredForm is
\* non-decreasing over the whole range, the counts keep fractional values,
\* and render rounds them only for drawing, never in current or target.
C4_MonotoneUnrounded == []C4_Interpolation /\ [][C4_RenderStep]_vars

\* updateFrequency(138) (t = 0.1 in segment 1) and one frame: the target has
\* 4.056 petals, current has a fractional count and the frame draws a whole one
C4_Witness ==
    /\ geo.frequency = 138
    /\ geo.target.petals = 4056
    /\ geoFrame.rendered
    /\ geo.current.petals % Milli # 0
    /\ geoFrame.petals * Milli # geo.current.petals

\* C8: for every amplitude in [0, 1] the composition alpha of a rendered
\* frame lies in [0.6, 1.0].
C8_AlphaBounds ==
    geoFrame.rendered => (geoFrame.alpha >= 600 /\ geoFrame.alpha <= 1000)

\* a frame rendered at amplitude exactly 0: alpha 0.65
C8_Witness ==
    /\ geoFrame.rendered
    /\ geo.amplitude = 0
    /\ geoFrame.alpha = 650

\* the frame drew the Seed of Life in layer 3 and nothing else
OnlySeedDrawn ==
    /\ geoFrame.rendered
    /\ {d.form : d \in geoFrame.layer3} = {"seedOfLife"}

\* C9: updateFrequency(f) with f at or below the lowest anchor sets the
\* target sacredForm to 0, and with render called for ever the renderer
\* reaches, and then stays in, frames whose layer 3 is the Seed of Life alone.
C9_SeedOnlyEventually ==
    /\ [](geo.frequency <= 120 => geo.target.sacredForm = 0)
    /\ [](geo.frequency <= 120 => <>[]OnlySeedDrawn)

\* the Flower of Life has faded out: sacredForm of current is at most 0.01
C9_Witness ==
    /\ geo.frequency = 120
    /\ geo.target.sacredForm = 0
    /\ geo.current.sacredForm <= 10
    /\ OnlySeedDrawn

\* field k moves from was towards to by at most 0.3 of the distance (the
\* model's values have a grain of one thousandth) and not beyond to
DampedStep(was, now, to) ==
    /\ Between(now, was, to)
    /\ 10 * Abs(now - was) <= 3 * Abs(to - was) + 10

\* every step, a render call at a timestamp not before the previous one
\* included, moves each field of current by a damped step towards target
C18_RenderStep ==
    \A k \in FieldIds :
        DampedStep(Fields(geo.current)[k], Fields(geo'.current)[k],
                   Fields(geo.target)[k])

\* C18: for every non-decreasing sequence of render timestamps each call
\* moves every field of current towards target by a fraction of the
\* remaining distance that is at most 0.3, so no field overshoots its target
\* or moves away from it.
C18_DampedApproach == [][C18_RenderStep]_vars

\* updateFrequency(120), a first frame (0.016 s) and a frame 1 s later, the
\* elapsed time capped at 0.05 s: petals has moved by 0.064 and then by 0.2
\* of the distance to 4
C18_Witness ==
    /\ geoFrame.rendered
    /\ geo.frequency = 120
    /\ geo.target.petals = 4000
    /\ geo.current.petals =
          Approach(Approach(ChakraTable[432].petals, 4000, 64), 4000, 200)
    /\ geo.current.petals > 4000
    /\ geo.current.petals < ChakraTable[432].petals

(***************************************************************************)
(* Claims about ChladniRenderer and GeometryRenderer together.             *)
(***************************************************************************)
\* the rendered state of both renderers
RenderedState == <<chladni.currentModeN, chladni.currentModeM, geo.current>>

\* a step that is no render call (an updateFrequency call of either
\* renderer) leaves the rendered state of both renderers as it was
C19_NonRenderStep == frames' = frames => RenderedState' = RenderedState

\* an updateFrequency step of ChladniRenderer changes at most the targets
\* and the particle targets, one of GeometryRenderer at most frequency and
\* target
C19_UpdateFrequencyStep ==
    /\ chHistory' # chHistory =>
          /\ chladni' = [chladni EXCEPT !.targetModeN = chladni'.targetModeN,
                                        !.targetModeM = chladni'.targetModeM]
          /\ geo' = geo
    /\ (geo'.frequency # geo.frequency \/ geo'.target # geo.target) =>
          /\ geo' = [geo EXCEPT !.frequency = geo'.frequency,
                                !.target = geo'.target]
          /\ chladni' = chladni

\* C19: ChladniRenderer.updateFrequency leaves currentModeN and currentModeM
\* unchanged and GeometryRenderer.updateFrequency leaves every field of
\* current unchanged; only targets change, and current changes only inside
\* render.
C19_CurrentOnlyInRender ==
    [][C19_NonRenderStep /\ C19_UpdateFrequencyStep]_vars

\* updateFrequency(6000) on both renderers after a frame of each: the targets
\* are those of 6000 Hz and the rendered states are still away from them
C19_Witness ==
    /\ frames > 0
    /\ Len(chHistory) > 0
    /\ LastCall.frequency = 6000
    /\ chladni.targetModeN = ChladniTargets[6000][1]
    /\ chladni.currentModeN < 4 * Milli
    /\ geo.frequency = 6000
    /\ geo.target = ChakraTable[6000]
    /\ geo.current # geo.target
    /\ geo.current # ChakraTable[432]

(***************************************************************************)
(* Claims about ParticleSystem.                                            *)
(***************************************************************************)
Particles == particleSystem.particles
BandLow == -(margin * Centi)
BandHighX == (particleSystem.canvas.width + margin) * Centi
BandHighY == (particleSystem.canvas.height + margin) * Centi

InBand(particle) ==
    /\ BandLow <= particle.x /\ particle.x <= BandHighX
    /\ BandLow <= particle.y /\ particle.y <= BandHighY

C1_InBand == \A i \in DOMAIN Particles : InBand(Particles[i])

\* where a coordinate that moved to raw ends up: on the opposite edge when
\* raw left the band on either side, at raw otherwise
Wrapped(raw, after, high) ==
    /\ raw < BandLow => after = high
    /\ raw > high => after = BandLow
    /\ (BandLow <= raw /\ raw <= high) => after = raw

\* an update step: every particle moves by its new velocity and is wrapped
C1_UpdateStep ==
    frames' = frames + 1 =>
        \A i \in DOMAIN Particles :
            /\ Wrapped(Particles[i].x + particleSystem'.particles[i].vx,
                       particleSystem'.particles[i].x, BandHighX)
            /\ Wrapped(Particles[i].y + particleSystem'.particles[i].vy,
                       particleSystem'.particles[i].y, BandHighY)

\* C1: after any sequence of update, updateTargets, resize and
\* setParticleCount calls every particle has -10 <= x <= canvas.width + 10
\* and -10 <= y <= canvas.height + 10, and a position that update moves out
\* of this band is put on the opposite edge, not clamped and not left outside.
C1_PositionsWrapped == []C1_InBand /\ [][C1_UpdateStep]_vars

\* a particle that left the canvas on the left, moving left, sits on the
\* right edge
C1_Witness ==
    \E i \in DOMAIN Particles :
        /\ Particles[i].vx < 0
        /\ Particles[i].x = BandHighX
        /\ frames > 0

\* the samples drawn for particle i in the call kept in retarget
SamplesOf(i) ==
    Samples[particleSystem.canvas, retarget.runs[i], <<retarget.modeN, retarget.modeM>>]
\* the smallest |field value| among samples
Least(samples) ==
    CHOOSE d \in {samples[a].distance : a \in DOMAIN samples} :
        \A a \in DOMAIN samples : d <= samples[a].distance
\* the same for every canvas, every run and every pair of modes, computed once
LeastOf == [key \in DOMAIN Samples |-> Least(Samples[key])]
\* the smallest |field value| among the samples of particle i in the call kept
\* in retarget
LeastSampled(i) ==
    LeastOf[particleSystem.canvas, retarget.runs[i], <<retarget.modeN, retarget.modeM>>]

\* what an updateTargets call may do to one particle: with least the smallest
\* |field value| among its samples, the target becomes a sample of that value
\* when it is below the tolerance, and stays as it was otherwise
RetargetedTo(samples, least, before, after) ==
    IF least < Tolerance
    THEN \E a \in DOMAIN samples :
            /\ samples[a].distance = least
            /\ after.targetX = samples[a].testX
            /\ after.targetY = samples[a].testY
    ELSE /\ after.targetX = before.targetX
         /\ after.targetY = before.targetY

\* the step of an updateTargets call
C2_RetargetStep ==
    retarget'.called =>
        \A i \in DOMAIN Particles :
            RetargetedTo(
                Samples[particleSystem.canvas, retarget'.runs[i],
                        <<retarget'.modeN, retarget'.modeM>>],
                LeastOf[particleSystem.canvas, retarget'.runs[i],
                        <<retarget'.modeN, retarget'.modeM>>],
                Particles[i], particleSystem'.particles[i])

\* C2: updateTargets(n, m) changes a particle's target only to the sample
\* with the smallest |field value| among its 20 samples and only when that
\* value is below 0.2; a particle whose best sample has |field value| >= 0.2
\* keeps its target.
C2_BestSampleBelowTolerance == [][C2_RetargetStep]_vars

\* updateTargets(5, 4) has drawn (3, 0), of |field value| 1, and (4, 1), of
\* 0.183, in turn: the target is the second sample
C2_Witness ==
    /\ retarget.called
    /\ \E i \in DOMAIN Particles :
          /\ LeastSampled(i) > 0
          /\ LeastSampled(i) < Tolerance
          /\ SamplesOf(i)[0].distance > LeastSampled(i)
          /\ Particles[i].targetX = SamplesOf(i)[1].testX
          /\ Particles[i].targetY = SamplesOf(i)[1].testY

(***************************************************************************)
(* Claims about WaveRenderer.                                              *)
(***************************************************************************)
\* C10: with 3 sources and amplitude 0 a rendered frame has the colour
\* (10, 20, 40) at alpha 255 in every pixel, whatever the interference and
\* the canvas size.
C10_AmplitudeZeroFrame ==
    (waveFrame.rendered /\ waveFrame.amplitude = 0 /\ Len(wave.sources) = 3) =>
        \A p \in Pixels(wave.width, wave.height) :
            waveFrame.data[p] = <<10, 20, 40, 255>>

(***************************************************************************)
(* Claims about the Chladni field.                                         *)
(***************************************************************************)
\* a step to the evaluation at the same point with n and m exchanged
C14_SwapStep ==
    (/\ field.evaluated
     /\ field'.evaluated
     /\ field'.x = field.x
     /\ field'.y = field.y
     /\ field'.n = field.m
     /\ field'.m = field.n) =>
        /\ field'.value = -field.value
        /\ field'.value2D = -field.value2D

\* C14: for all x, y in [-1, 1] and all modes n, m the field value for
\* (n, m) is minus the field value for (m, n), in calculateChladni and in
\* the expression of render2D.
C14_Antisymmetric == [][C14_SwapStep]_vars

\* the field at (1/6, 1/3) for modes (5, 4.3) after the evaluation for
\* (4.3, 5): a value that is not 0
C14_Witness ==
    /\ field.evaluated
    /\ field.swapped
    /\ field.x = 1
    /\ field.y = 2
    /\ field.n = 50
    /\ field.m = 43
    /\ field.value # 0
    /\ field.value = field.value2D

(***************************************************************************)
(* Claims about drawing contexts and GPU objects.                          *)
(***************************************************************************)
Constructed(r) == refs[r].status = "constructed"

\* C12 as stated: every constructor throws when it cannot obtain the context
\* it needs, so a constructed renderer holds a context (ChladniRenderer: a
\* WebGL or a 2D context for the field, and its ParticleSystem a 2D context)
\* and no render call draws into a null context, also when the renderers
\* share the two canvases.
C12_ContextOrThrow ==
    /\ Constructed("chladni") => (refs.chladni.gl \/ refs.chladni.ctx2d)
    /\ Constructed("wave") => refs.wave.ctx
    /\ Constructed("geometry") => refs.geometry.ctx
    /\ drawn.layer # "null context"

\* the GPU path of the constructed ChladniRenderer is unusable
GpuUnusable == ~(refs.chladni.gl /\ refs.chladni.program)

\* C13 as stated: whenever the GPU path is unusable (no WebGL context, or
\* shaders that did not compile or link), a render call of ChladniRenderer
\* draws the field layer through the software path.
C13_SoftwareFallback ==
    (drawn.renderer = "chladni" /\ GpuUnusable) => drawn.layer = "2d"

\* a destroy step leaves every field of every renderer as it was
C16_DestroyStep == destroys' # destroys => refs' = refs

\* C16 as stated: on every renderer a second destroy releases nothing
\* further (deleteProgram and deleteBuffer are called at most once on the
\* program and the buffer) and leaves the renderer's state as it was.
C16_DestroyIdempotent ==
    /\ [](gpu.deleteProgram <= 1 /\ gpu.deleteBuffer <= 1)
    /\ [][C16_DestroyStep]_vars

(***************************************************************************)
(* Further claims about WaveRenderer.                                      *)
(***************************************************************************)
\* the frequency set by updateFrequency is one the host can supply
HostFrequency == wave.frequency >= 20 /\ wave.frequency <= 20000

\* C11 as stated: for every frequency in 20..20000 Hz the wavelength of
\* calculateInterference is strictly positive and shorter than at every lower
\* frequency, and the interference of every pixel is a number, not NaN.
C11_WavelengthPositive ==
    HostFrequency =>
        /\ Wavelength(wave.frequency) > 0
        /\ \A lower \in WaveFreqs :
              lower < wave.frequency =>
                  Wavelength(lower) > Wavelength(wave.frequency)
        /\ \A p \in Pixels(wave.width, wave.height) :
              ~calculateInterference(p[1], p[2], wave.time).nan

\* The entries of a frame's layer 3 for one sacred form
DrawnForm(frame, name) == {d \in frame.layer3 : d.form = name}

SacredForms == {"seedOfLife", "flowerOfLife", "sriYantra", "metatronsCube",
                "merkaba", "goldenMandala"}

\* C22 as stated: layer 3 is continuous in sacredForm. Between two frames in
\* which sacredForm moved by d, a form drawn in both changes its alpha and
\* its blendIn by at most d (every blend is linear with slope at most 1), and
\* a form drawn in only one of them is drawn there with an alpha of at most
\* 0.01 + d. One thousandth is allowed for rounding.
C22_Layer3Continuous ==
    [][(geoFrame.rendered /\ geoFrame'.rendered) =>
        LET moved == Abs(geo'.current.sacredForm - geo.current.sacredForm)
        IN  \A name \in SacredForms :
                /\ \A d \in DrawnForm(geoFrame, name) :
                        \A e \in DrawnForm(geoFrame', name) :
                            /\ Abs(e.alpha - d.alpha) <= moved + 1
                            /\ Abs(e.blendIn - d.blendIn) <= moved + 1
                /\ DrawnForm(geoFrame', name) = {} =>
                        \A d \in DrawnForm(geoFrame, name) : d.alpha <= 10 + moved + 1
                /\ DrawnForm(geoFrame, name) = {} =>
                        \A e \in DrawnForm(geoFrame', name) : e.alpha <= 10 + moved + 1]_vars

(***************************************************************************)
(* The field layer: alpha, intensity and colour of the shaded pixel.       *)
(***************************************************************************)
\* C23 as stated: in the software fallback a sampled pixel on a nodal line,
\* |field| < 0.1, is written with a non-zero alpha, for every amplitude in
\* [0, 1], 0 included.
C23_NodalPixelVisible ==
    (shade.path = "2d" /\ shade.pixel.nodal) => shade.pixel.alpha > 0

\* C24 as stated, for the fragments of the unmasked part of the disc
\* (r < 0.7): the intensity (nodal * 1.0 + glow * 0.6) * mask of the fragment
\* program lies in [0, 1] for every amplitude in [0, 1] and every value of
\* the pattern.
C24_IntensityBounded ==
    (shade.path = "webgl" /\ shade.pixel.r < 700) =>
        Between(shade.pixel.intensity, 0, Milli)

\* C25 as stated: for the current modes of every frame the parameter
\* (n + m) / 16 of getFrequencyColor lies in [0, 1] and r, g and b are
\* integers in 0..255.
C25_ColorInterpolates ==
    shade.path # "none" =>
        /\ Between(shade.color.t, 0, Milli)
        /\ shade.color.r \in 0..255
        /\ shade.color.g \in 0..255
        /\ shade.color.b \in 0..255

(***************************************************************************)
(* The audio engines: playing flags, node graphs and deferred cleanups.    *)
(***************************************************************************)
\* every node in nodes is non-null and its graph is still connected
Live(nodes) == \A node \in nodes : node # 0 /\ node \in audio.connected

\* C26 as stated: under every interleaving of start(), stop() and the
\* deferred cleanups, an engine whose isPlaying is true holds non-null,
\* connected oscillator and gain nodes (FrequencyEngine, BinauralEngine and
\* every layer of HarmonicEngine).
C26_PlayingHasNodes ==
    /\ audio.frequencyEngine.isPlaying =>
            Live({audio.frequencyEngine.oscillator, audio.frequencyEngine.gainNode})
    /\ audio.binauralEngine.isPlaying =>
            Live({audio.binauralEngine.leftOscillator, audio.binauralEngine.rightOscillator,
                  audio.binauralEngine.leftGain, audio.binauralEngine.rightGain})
    /\ audio.harmonicEngine.isPlaying =>
            \A i \in DOMAIN audio.harmonicEngine.layers :
                Live({audio.harmonicEngine.layers[i].oscillator,
                      audio.harmonicEngine.layers[i].gainNode})

\* a timer with this callback is pending
Pending(callback) ==
    \E i \in DOMAIN audio.timers : audio.timers[i].callback = callback

\* C27 as stated: when the last call on the TextureEngine was start(t, v)
\* with t other than 'none' and all its timers have fired, the engine is
\* playing t with live source, filter and gain nodes.
C27_TextureSettles ==
    (/\ audio.calls.textureEngine.method = "start"
     /\ audio.calls.textureEngine.texture # "none"
     /\ ~Pending("textureCleanup")) =>
        /\ audio.textureEngine.isPlaying
        /\ audio.textureEngine.currentTexture = audio.calls.textureEngine.texture
        /\ Live({audio.textureEngine.source, audio.textureEngine.filterNode,
                 audio.textureEngine.gainNode})

\* C28 as stated: after stop() has returned, getState().isPlaying of the
\* FrequencyEngine, the BinauralEngine and the TextureEngine is false.
C28_StoppedAfterStop ==
    \A engine \in {"frequencyEngine", "binauralEngine", "textureEngine"} :
        audio.calls[engine].method = "stop" => ~audio[engine].isPlaying

\* C29 as stated, for the TextureEngine: when playback has been stopped and
\* all pending timers have fired, the engine is not playing: the delayed
\* textureEngine.start of handleTextureChange and handleLoadPreset does not
\* start a texture after Stop.
C29_StoppedMeansSilent ==
    (~app.isPlaying /\ audio.timers = <<>>) => ~audio.textureEngine.isPlaying

(***************************************************************************)
(* Presets.                                                                *)
(***************************************************************************)
\* C30 as stated: after any sequence of saves and deletes the presets that
\* getAllPresets() lists, the defaults and then the custom ones, have
\* pairwise different names.
C30_NamesUnique ==
    LET listed == getAllPresets(localStorage)
    IN  \A i, j \in DOMAIN listed : listed[i].name = listed[j].name => i = j

====
